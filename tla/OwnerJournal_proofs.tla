-------------------------- MODULE OwnerJournal_proofs --------------------------
(***************************************************************************)
(* Proofs about OwnerJournal for every set of processes and every number   *)
(* of attempts.                                                            *)
(*                                                                         *)
(* The first part needs nothing of the file system.  A journal write       *)
(* that reports an error may have happened (DirSyncMayFail); still a       *)
(* start in progress has the newest attempt and the free journal to        *)
(* itself, and a record is only fenced, attached or deleted (TornInv).     *)
(*                                                                         *)
(* The second part assumes ~DirSyncMayFail: without it the journal may     *)
(* name an Extension that gave its lease up, and none of its theorems      *)
(* holds.  Its heart is the inductive invariant IInv, whose conjuncts      *)
(* say, of every operation in progress, what the process has already       *)
(* secured: an acquirer holds its lease (AcquirerHolds), a start has the   *)
(* free journal and the newest attempt to itself (BeginReserved), a        *)
(* binding works on a foreign record without a guard of its own            *)
(* (BindIsForeign), an acknowledging owner on its own (AckIsOwn), and      *)
(* what recovery read is still true or proved dead (RecoveryProof).  With  *)
(* OwnerIsJournalled and its converse OwnerIsBound they make the           *)
(* Extension lease the proof of life that the code takes it for.           *)
(***************************************************************************)
EXTENDS OwnerJournal, TLAPS

USE DEF Proc, Role, Attempt, NoAttempt, Goto, Finish, Idle, At,
        osVars, leaseVars, opVars, recoverVars

-----------------------------------------------------------------------------
(* Whatever the directory of the journal does                              *)

\* What remains when a written record may be taken for a failed one: the issuer
\* lease still reserves the newest attempt and the free journal, and a record that
\* was cleaned is gone.
IssuerHolds ==
  \A u \in UiProc : pc[u] \in {"stampIssuer", "create"} => holder["issuer"] = u

TornInv ==
  /\ TypeOK /\ JournalWellFormed /\ IssuerHolds /\ BeginReserved
  /\ CleanedIsFinal /\ CleanedWasIssued

\* Every action writes values of the right type.
LEMMA TypeKept ==
  ASSUME TornInv, Next
  PROVE  TypeOK'
<1> USE ProcAssumption, BoundAssumption DEF TornInv
<1>w. /\ Missing \in Journal
      /\ journal.phase # "Missing" => journal.attempt \in Attempt /\ journal.issuer \in UiProc
  BY DEF JournalWellFormed, WellFormed, Missing, Journal
<1>1. ASSUME NEW p \in Proc, ProcStep(p) PROVE TypeOK'
  <2>1. CASE Launch(p)
    BY <2>1 DEF TypeOK, Launch
  <2>2. CASE Die(p)
    BY <1>w, <2>2 DEF TypeOK, Die
  <2>3. CASE Abandon(p)
    BY <1>w, <2>3 DEF TypeOK, Abandon
  <2>4. CASE DropOnCleanup(p)
    BY <2>4 DEF TypeOK, DropOnCleanup
  <2> QED
    BY <1>1, <2>1, <2>2, <2>3, <2>4 DEF ProcStep
<1>2. ASSUME NEW u \in UiProc, UiStep(u) PROVE TypeOK'
  <2>1. CASE BeginAcquire(u)
    BY <2>1 DEF TypeOK, BeginAcquire, Acquire, PendingBy, Journal
  <2>2. CASE BeginStamp(u)
    BY <2>2 DEF TypeOK, BeginStamp, WriteRecord, LeaseRecord, Journal
  <2>3. CASE BeginCreate(u)
    BY <1>w, <2>3 DEF TypeOK, BeginCreate, Journal
  <2>4. CASE ClaimRead(u)
    BY <2>4 DEF TypeOK, ClaimRead, Journal
  <2>11. CASE ClaimMissed(u)
    BY <2>11 DEF TypeOK, ClaimMissed
  <2>5. CASE ClaimFence(u)
    BY <1>w, <2>5 DEF TypeOK, ClaimFence, Stopping, Journal
  <2>6. CASE ClaimReread(u)
    BY <1>w, <2>6 DEF TypeOK, ClaimReread, Journal
  <2>7. CASE ConfirmStop(u)
    BY <2>7 DEF TypeOK, ConfirmStop, GotoRecover, Missing, Journal
  <2>8. CASE RecoverRead(u) \/ RecoverObserve(u) \/ RecoverDelete(u)
    <3>1. \E label \in {"idle", "read", "observe", "delete"}, j \in {Missing, journal, rrec[u]} :
            GotoRecover(u, label, j)
      BY <2>8 DEF RecoverRead, RecoverObserve, RecoverDelete
    <3>2. rpc' \in [UiProc -> {"idle", "read", "observe", "delete"}] /\ rrec' \in [UiProc -> Journal]
      BY <1>w, <3>1 DEF GotoRecover, TypeOK
    <3>3. /\ journal' \in {journal, Missing}
          /\ cleaned' \in {cleaned, cleaned \cup {rrec[u].attempt}}
          /\ CanDelete(journal, rrec[u]) \/ cleaned' = cleaned
      BY <2>8 DEF RecoverRead, RecoverObserve, RecoverDelete
    <3>4. journal' \in Journal /\ cleaned' \subseteq Attempt
      BY <1>w, <3>3 DEF CanDelete, TypeOK
    <3> QED
      BY <2>8, <3>2, <3>4 DEF RecoverRead, RecoverObserve, RecoverDelete, TypeOK
  <2>9. CASE ProbeLock(u)
    BY <2>9 DEF TypeOK, ProbeLock, Acquire
  <2>10. CASE ProbeJudge(u)
    <3>1. lost' \subseteq Attempt \X ExtProc
      BY <1>w, <2>10 DEF ProbeJudge, JournalWellFormed, WellFormed, TypeOK
    <3>2. holder' \in [Role -> Proc \cup {NoProc}]
      BY <2>10 DEF ProbeJudge, Drop, TypeOK
    <3> QED
      BY <1>w, <2>10, <3>1, <3>2 DEF ProbeJudge, TypeOK
  <2> QED
    BY <1>2, <2>1, <2>2, <2>3, <2>4, <2>5, <2>6, <2>7, <2>8, <2>9, <2>10, <2>11
     DEF UiStep
<1>3. ASSUME NEW e \in ExtProc, ExtStep(e) PROVE TypeOK'
  <2>1. CASE BindRead(e)
    BY <2>1 DEF TypeOK, BindRead, BindStep
  <2>2. CASE BindCheckIssuer(e)
    BY <2>2 DEF TypeOK, BindCheckIssuer
  <2>8. CASE BindCheckPrev(e)
    BY <2>8 DEF TypeOK, BindCheckPrev
  <2>9. CASE BindAcquire(e)
    BY <2>9 DEF TypeOK, BindAcquire, Acquire
  <2>3. CASE BindStamp(e)
    BY <2>3 DEF TypeOK, BindStamp, WriteRecord, LeaseRecord, Journal
  <2>10. CASE BindKeep(e)
    BY <1>w, <2>10 DEF TypeOK, BindKeep, Journal
  <2>4. CASE BindSwap(e)
    <3>1. AttachedTo(journal, e) \in Journal
      BY DEF AttachedTo, TypeOK, Journal
    <3>2. rec[e].attempt \in Attempt \cup {NoAttempt}
      BY DEF TypeOK, Journal
    <3>3. /\ journal' \in {journal, AttachedTo(journal, e)}
          /\ bound' \in {bound, [bound EXCEPT ![e] = rec[e].attempt]}
          /\ holder' \in {holder, [holder EXCEPT !["extension"] = NoProc]}
      BY <2>4 DEF BindSwap, Drop, TypeOK
    <3>4. /\ journal' \in Journal /\ bound' \in [Proc -> Attempt \cup {NoAttempt}]
          /\ holder' \in [Role -> Proc \cup {NoProc}]
      BY <3>1, <3>2, <3>3 DEF TypeOK
    <3> QED
      BY <1>w, <2>4, <3>4 DEF BindSwap, TypeOK
  <2>5. CASE AckRead(e)
    BY <2>5 DEF TypeOK, AckRead
  <2>6. CASE AckDelete(e) \/ FailUnattached(e)
    <3>1. /\ journal' = Missing /\ journal.phase # "Missing"
          /\ cleaned' \in {cleaned, cleaned \cup {journal.attempt}}
          /\ bound' \in {bound, [bound EXCEPT ![e] = NoAttempt]}
          /\ holder' \in {holder, [holder EXCEPT !["extension"] = NoProc]}
      BY <2>6 DEF AckDelete, FailUnattached, CanDelete, Drop, TypeOK
    <3>2. /\ journal' \in Journal /\ cleaned' \subseteq Attempt
          /\ bound' \in [Proc -> Attempt \cup {NoAttempt}]
          /\ holder' \in [Role -> Proc \cup {NoProc}]
      BY <1>w, <3>1 DEF TypeOK
    <3> QED
      BY <1>w, <2>6, <3>2 DEF AckDelete, FailUnattached, TypeOK
  <2> QED
    BY <1>3, <2>1, <2>2, <2>3, <2>4, <2>5, <2>6, <2>8, <2>9, <2>10 DEF ExtStep
<1> QED
  BY <1>1, <1>2, <1>3 DEF Next

\* What a step does to the reservation and the journal, apart from the start's own:
\* it leaves those of a start in progress alone; it fences, attaches or deletes a
\* record, and only a deleted one is reported as cleaned.
Starting == {"stampIssuer", "create"}

GoesOn ==
  /\ issued' = issued /\ started \subseteq started'
  /\ \A w \in UiProc : pc'[w] \in Starting =>
       /\ pc[w] \in Starting /\ rec'[w] = rec[w]
       /\ holder["issuer"] = w => holder'["issuer"] = w

RecordMoves ==
  \/ journal' = journal /\ cleaned' = cleaned
  \/ journal.phase = "Pending" /\ journal' = Stopping(journal) /\ cleaned' = cleaned
  \/ /\ journal.phase \in {"Pending", "Attached"} /\ cleaned' = cleaned
     /\ \E e \in ExtProc \cap started : journal' = AttachedTo(journal, e)
  \/ /\ journal.phase # "Missing" /\ journal' = Missing
     /\ cleaned' \in {cleaned, cleaned \cup {journal.attempt}}

\* A process that appears, dies or gives up releases at most its own reservation.
LEMMA ProcGoesOn ==
  ASSUME TornInv, NEW p \in Proc, ProcStep(p)
  PROVE  GoesOn /\ RecordMoves
<1> USE ProcAssumption DEF TornInv
<1>1. CASE Launch(p)
  BY <1>1 DEF Launch, GoesOn, RecordMoves
<1>2. CASE Die(p)
  BY <1>2 DEF Die, GoesOn, RecordMoves, Starting, TypeOK
<1>3. CASE Abandon(p)
  BY <1>3 DEF Abandon, Acquiring, IssuerHolds, GoesOn, RecordMoves, Starting, TypeOK
<1>4. CASE DropOnCleanup(p)
  BY <1>4 DEF DropOnCleanup, GoesOn, RecordMoves, Starting, TypeOK
<1> QED
  BY <1>1, <1>2, <1>3, <1>4 DEF ProcStep

\* The UI stamps its lease, claims, fences, recovers and probes; only BeginAcquire and
\* BeginCreate make an attempt.
LEMMA UiGoesOn ==
  ASSUME TornInv, NEW u \in UiProc, UiStep(u), ~BeginAcquire(u), ~BeginCreate(u)
  PROVE  GoesOn /\ RecordMoves
<1> USE ProcAssumption DEF TornInv
<1>1. CASE BeginStamp(u)
  BY <1>1 DEF BeginStamp, GoesOn, RecordMoves, Starting, TypeOK
<1>2. CASE ClaimRead(u) \/ ClaimMissed(u) \/ ClaimReread(u)
  BY <1>2 DEF ClaimRead, ClaimMissed, ClaimReread, GoesOn, RecordMoves, Starting, TypeOK
<1>3. CASE ClaimFence(u)
  BY <1>3 DEF ClaimFence, CanFence, GoesOn, RecordMoves, Starting, TypeOK
<1>4. CASE ConfirmStop(u) \/ RecoverRead(u) \/ RecoverObserve(u)
  BY <1>4 DEF ConfirmStop, RecoverRead, RecoverObserve, GoesOn, RecordMoves, Starting, TypeOK
<1>5. CASE RecoverDelete(u)
  <2>1. RecordMoves
    BY <1>5 DEF RecoverDelete, CanDelete, RecordMoves
  <2> QED
    BY <1>5, <2>1 DEF RecoverDelete, GoesOn, Starting, TypeOK
<1>6. CASE ProbeLock(u) \/ ProbeJudge(u)
  BY <1>6 DEF ProbeLock, ProbeJudge, Acquire, Drop, GoesOn, RecordMoves, Starting, TypeOK
<1> QED
  BY <1>1, <1>2, <1>3, <1>4, <1>5, <1>6 DEF UiStep

\* An Extension attaches the record it bound and deletes the one it owns.
LEMMA ExtGoesOn ==
  ASSUME TornInv, NEW e \in ExtProc, ExtStep(e)
  PROVE  GoesOn /\ RecordMoves
<1> USE ProcAssumption DEF TornInv
<1>1. CASE BindRead(e) \/ BindCheckIssuer(e) \/ BindCheckPrev(e) \/ BindAcquire(e)
  BY <1>1 DEF BindRead, BindStep, BindCheckIssuer, BindCheckPrev, BindAcquire, Acquire, GoesOn,
              RecordMoves, Starting, TypeOK
<1>2. CASE BindStamp(e) \/ BindKeep(e) \/ AckRead(e)
  BY <1>2 DEF BindStamp, BindKeep, AckRead, GoesOn, RecordMoves, Starting, TypeOK
<1>3. CASE BindSwap(e)
  <2>1. e \in started
    BY <1>3 DEF BindSwap, TypeOK
  <2>2. RecordMoves
    BY <1>3, <2>1 DEF BindSwap, CanSwap, CanUpgrade, CanRebind, RecordMoves
  <2> QED
    BY <1>3, <2>2 DEF BindSwap, Drop, GoesOn, Starting, TypeOK
<1>4. CASE AckDelete(e) \/ FailUnattached(e)
  <2>1. RecordMoves
    BY <1>4 DEF AckDelete, FailUnattached, CanDelete, RecordMoves
  <2> QED
    BY <1>4, <2>1 DEF AckDelete, FailUnattached, Drop, GoesOn, Starting, TypeOK
<1> QED
  BY <1>1, <1>2, <1>3, <1>4 DEF ExtStep

\* Every step is one of these, or one of the two by which a start reserves an attempt
\* and writes its record.
LEMMA NextGoesOn ==
  ASSUME TornInv, Next
  PROVE  \/ GoesOn /\ RecordMoves
         \/ \E u \in UiProc : BeginAcquire(u) \/ BeginCreate(u)
BY ProcGoesOn, UiGoesOn, ExtGoesOn DEF Next

\* TornInv is inductive.
LEMMA NextKeepsTorn ==
  ASSUME TornInv, [Next]_vars
  PROVE  TornInv'
<1> USE ProcAssumption, BoundAssumption DEF TornInv
<1>w. journal.phase # "Missing" => journal.attempt \in Attempt /\ journal.attempt <= issued
  BY DEF JournalWellFormed, WellFormed
<1>1. CASE UNCHANGED vars
  BY <1>1 DEF vars, TypeOK, JournalWellFormed, WellFormed, IssuerHolds, BeginReserved,
              CleanedIsFinal, CleanedWasIssued
<1>2. ASSUME GoesOn, RecordMoves, TypeOK' PROVE TornInv'
  <2>1. IssuerHolds'
    BY <1>2 DEF GoesOn, IssuerHolds, Starting
  <2>2. BeginReserved'
    <3>1. \A w \in UiProc : pc'[w] \in Starting =>
            /\ rec'[w] = PendingBy(issued', w) /\ issued' \in Attempt \ cleaned /\ journal = Missing
      BY <1>2 DEF GoesOn, BeginReserved, Starting
    <3>2. journal = Missing => journal' = journal /\ cleaned' = cleaned
      BY <1>2 DEF RecordMoves, Missing
    <3> QED
      BY <3>1, <3>2 DEF BeginReserved, Starting
  <2>3. JournalWellFormed'
    <3>1. journal \in Journal /\ issued' = issued /\ started \subseteq started'
      BY <1>2 DEF TypeOK, GoesOn
    <3>2. CASE journal' = journal
      BY <3>1, <3>2 DEF JournalWellFormed, WellFormed
    <3>3. CASE journal' = Missing
      BY <3>1, <3>3 DEF JournalWellFormed, WellFormed, Missing, TypeOK
    <3>4. CASE journal.phase = "Pending" /\ journal' = Stopping(journal)
      BY <3>1, <3>4 DEF JournalWellFormed, WellFormed, Stopping, Journal
    <3>5. ASSUME journal.phase \in {"Pending", "Attached"}, NEW e \in ExtProc \cap started,
                 journal' = AttachedTo(journal, e)
          PROVE  JournalWellFormed'
      BY <3>1, <3>5 DEF JournalWellFormed, WellFormed, AttachedTo, Journal
    <3> QED
      BY <1>2, <3>2, <3>3, <3>4, <3>5 DEF RecordMoves
  <2>4. CleanedWasIssued'
    BY <1>w, <1>2 DEF GoesOn, RecordMoves, CleanedWasIssued
  <2>5. CleanedIsFinal'
    <3>0. cleaned' \subseteq Attempt
      BY <1>2 DEF TypeOK
    <3>1. Missing.attempt \notin Attempt
      BY DEF Missing, NoAttempt, Attempt
    <3>2. CASE journal' = Missing
      BY <3>0, <3>1, <3>2 DEF CleanedIsFinal
    <3>3. CASE journal'.attempt = journal.attempt /\ cleaned' = cleaned
      BY <3>3 DEF CleanedIsFinal
    <3>4. journal' = Missing \/ (journal'.attempt = journal.attempt /\ cleaned' = cleaned)
      <4>1. journal \in Journal
        BY DEF TypeOK
      <4>2. /\ Stopping(journal).attempt = journal.attempt
            /\ \A e \in ExtProc : AttachedTo(journal, e).attempt = journal.attempt
        BY <4>1 DEF Stopping, AttachedTo, Journal
      <4> QED
        BY <1>2, <4>2 DEF RecordMoves
    <3> QED
      BY <3>2, <3>3, <3>4
  <2> QED
    BY <1>2, <2>1, <2>2, <2>3, <2>4, <2>5
<1>3. ASSUME NEW u \in UiProc, BeginAcquire(u), TypeOK' PROVE TornInv'
  <2>1. \A w \in UiProc : pc[w] \notin Starting
    BY <1>3 DEF BeginAcquire, Released, IssuerHolds, Starting
  <2>2. /\ journal = Missing /\ UNCHANGED <<journal, cleaned, started>> /\ issued' = issued + 1
        /\ issued' \in Attempt /\ holder'["issuer"] = u
        /\ rec'[u] = PendingBy(issued', u)
    BY <1>3 DEF BeginAcquire, Acquire, TypeOK
  <2>3. \A w \in UiProc : pc'[w] \in Starting => w = u
    BY <1>3, <2>1 DEF BeginAcquire, TypeOK
  <2>4. issued \in Nat /\ issued' \notin cleaned
    BY <2>2 DEF CleanedWasIssued, TypeOK
  <2>5. IssuerHolds' /\ BeginReserved'
    BY <2>2, <2>3, <2>4 DEF IssuerHolds, BeginReserved, Starting
  <2>6. JournalWellFormed' /\ CleanedIsFinal'
    BY <2>2, <2>4 DEF JournalWellFormed, WellFormed, CleanedIsFinal, Missing
  <2>7. CleanedWasIssued'
    BY <2>2, <2>4 DEF CleanedWasIssued, TypeOK
  <2> QED
    BY <1>3, <2>5, <2>6, <2>7
<1>4. ASSUME NEW u \in UiProc, BeginCreate(u), TypeOK' PROVE TornInv'
  <2>1. /\ pc[u] \in Starting /\ holder["issuer"] = u
        /\ journal' = PendingBy(issued, u) /\ issued \in Attempt \ cleaned
        /\ UNCHANGED <<issued, cleaned, started>>
    BY <1>4 DEF BeginCreate, IssuerHolds, BeginReserved, Starting
  <2>2. \A w \in UiProc : pc'[w] \notin Starting
    <3>1. \A w \in UiProc : w # u => pc'[w] = pc[w] /\ pc[w] \notin Starting
      BY <1>4, <2>1 DEF BeginCreate, IssuerHolds, Starting, TypeOK
    <3>2. pc'[u] = "idle"
      BY <1>4 DEF BeginCreate, TypeOK
    <3> QED
      BY <3>1, <3>2 DEF Starting
  <2>3. IssuerHolds' /\ BeginReserved'
    BY <2>2 DEF IssuerHolds, BeginReserved, Starting
  <2>4. JournalWellFormed' /\ CleanedIsFinal' /\ CleanedWasIssued'
    BY <2>1 DEF JournalWellFormed, WellFormed, PendingBy, CleanedIsFinal, CleanedWasIssued
  <2> QED
    BY <1>4, <2>3, <2>4
<1> QED
  BY <1>1, <1>2, <1>3, <1>4, TypeKept, NextGoesOn

\* No operation is in progress, nothing was issued or cleaned.
LEMMA InitTorn == Init => TornInv
BY ProcAssumption, BoundAssumption
   DEF Init, TornInv, TypeOK, JournalWellFormed, WellFormed, IssuerHolds, BeginReserved,
       CleanedIsFinal, CleanedWasIssued, Missing, Journal, LeaseRecord

\* Whether or not the journal's directory can be synced, a start in progress has the
\* newest attempt and the free journal to itself, and a cleaned attempt is gone.
THEOREM DisciplineHolds == Spec => []TornInv
BY InitTorn, NextKeepsTorn, PTL DEF Spec

\* Type correctness of the journal, the leases and every operation in progress.
THEOREM TypeCorrect == Spec => []TypeOK
BY DisciplineHolds, PTL DEF TornInv

\* An attempt whose cleanup was reported is never in the journal again, not even
\* after a write that failed and did happen (complete_platform_vpn_cleanup,
\* recover_platform_vpn_cleanup_after_confirmed_stop).
THEOREM CleanupIsFinal == Spec => []CleanedIsFinal
BY DisciplineHolds, PTL DEF TornInv

\* A start writes the journal only where there was none.
LEMMA TornJournalSteps ==
  ASSUME TornInv, Next
  PROVE  journal = Missing \/ RecordMoves
BY NextGoesOn DEF BeginAcquire, BeginCreate

\* A Stopping tombstone is only ever removed (fence_pending_stop_exact): a Want that
\* arrives after the stop cannot attach.
THEOREM TombstoneIsFinal == Spec => TombstoneHolds
<1>1. TornInv /\ [Next]_vars => TombstoneStep
  BY TornJournalSteps DEF TombstoneStep, RecordMoves, Missing, vars
<1> QED
  BY <1>1, DisciplineHolds, PTL DEF Spec, TombstoneHolds

\* The attempt and the issuer in the journal change only through its deletion
\* (create_pending_exact, upgrade_attached_exact, rebind_attached_exact).
THEOREM AttemptIsKept == Spec => AttemptNeverReplaced
<1>1. ASSUME TornInv, Next PROVE AttemptStep
  <2>1. journal \in Journal
    BY <1>1 DEF TornInv, TypeOK
  <2> QED
    BY <1>1, <2>1, TornJournalSteps DEF AttemptStep, RecordMoves, Stopping, AttachedTo, Journal
<1>2. UNCHANGED vars => AttemptStep
  BY DEF vars, AttemptStep
<1> QED
  BY <1>1, <1>2, DisciplineHolds, PTL DEF Spec, AttemptNeverReplaced

-----------------------------------------------------------------------------
(* Each action keeps the inductive invariant                               *)

\* A new incarnation is named nowhere yet.
LEMMA LaunchKeeps ==
  ASSUME IInv, NEW p \in Proc, Launch(p)
  PROVE  IInv'
<1> USE ProcAssumption, BoundAssumption DEF IInv
<1>1. TypeOK'
  BY DEF TypeOK, Launch
<1>2. JournalWellFormed'
  BY DEF JournalWellFormed, Launch, WellFormed
<1>3. DeadIsClean'
  BY DEF DeadIsClean, Launch
<1>4. OwnerIsBound'
  BY DEF OwnerIsBound, Launch, JournalWellFormed, WellFormed
<1>5. RecoveryProof'
  BY DEF RecoveryProof, Launch, WellFormed
<1>6. LostIsGone'
  BY DEF LostIsGone, Launch
<1>7. OwnerIsJournalled' /\ AcquirerHolds' /\ BeginReserved' /\ BindIsForeign' /\
      AckIsOwn' /\ CleanedIsFinal' /\ CleanedWasIssued'
  BY DEF Launch, OwnerIsJournalled, AcquirerHolds, BeginReserved, BindIsForeign, AckIsOwn,
         CleanedIsFinal, CleanedWasIssued, Acquiring, PendingBy, Missing
<1> QED
  BY <1>1, <1>2, <1>3, <1>4, <1>5, <1>6, <1>7

\* The dead process loses its operation, its leases and its guard; files stay.
LEMMA DieKeeps ==
  ASSUME IInv, NEW p \in Proc, Die(p)
  PROVE  IInv'
<1> USE ProcAssumption, BoundAssumption DEF IInv
<1>1. TypeOK'
  BY DEF TypeOK, Die, Missing, Journal
<1>2. DeadIsClean'
  BY DEF DeadIsClean, Die, TypeOK
<1>3. OwnerIsJournalled'
  BY DEF OwnerIsJournalled, Die, TypeOK
<1>4. OwnerIsBound'
  BY DEF OwnerIsBound, Die
<1>5. AcquirerHolds'
  BY DEF AcquirerHolds, Die, TypeOK, Acquiring
<1>6. BeginReserved'
  BY DEF BeginReserved, Die, TypeOK
<1>7. BindIsForeign'
  BY DEF BindIsForeign, Die, TypeOK
<1>8. AckIsOwn'
  BY DEF AckIsOwn, Die, TypeOK
<1>9. RecoveryProof'
  BY DEF RecoveryProof, Die, WellFormed
<1>10. LostIsGone'
  BY DEF LostIsGone, Die
<1>11. JournalWellFormed' /\ CleanedIsFinal' /\ CleanedWasIssued'
  BY DEF Die, JournalWellFormed, CleanedIsFinal, CleanedWasIssued, WellFormed, Missing
<1> QED
  BY <1>1, <1>2, <1>3, <1>4, <1>5, <1>6, <1>7, <1>8, <1>9, <1>10, <1>11

\* An operation that fails returns only the lease it was acquiring.
LEMMA AbandonKeeps ==
  ASSUME IInv, NEW p \in Proc, Abandon(p)
  PROVE  IInv'
<1> USE ProcAssumption, BoundAssumption DEF IInv
<1>1. TypeOK'
  BY DEF TypeOK, Abandon, Missing, Journal
<1>2. DeadIsClean'
  BY DEF DeadIsClean, Abandon
<1>3. OwnerIsJournalled'
  <2> SUFFICES ASSUME NEW e \in ExtProc, bound[e] # NoAttempt, Acquiring(p, "extension")
               PROVE  FALSE
    BY DEF OwnerIsJournalled, Abandon, TypeOK
  <2>1. p = e
    BY DEF OwnerIsJournalled, AcquirerHolds
  <2> QED
    BY <2>1 DEF Acquiring, BindIsForeign
<1>4. AcquirerHolds'
  BY DEF AcquirerHolds, Abandon, Acquiring, TypeOK
<1>5. BeginReserved'
  BY DEF BeginReserved, Abandon, TypeOK
<1>6. BindIsForeign'
  BY DEF BindIsForeign, Abandon, TypeOK
<1>7. AckIsOwn'
  BY DEF AckIsOwn, Abandon, TypeOK
<1>8. JournalWellFormed' /\ OwnerIsBound' /\ RecoveryProof' /\ CleanedIsFinal' /\
      CleanedWasIssued' /\ LostIsGone'
  BY DEF Abandon, JournalWellFormed, OwnerIsBound, RecoveryProof, CleanedIsFinal,
         CleanedWasIssued, LostIsGone, WellFormed, Missing
<1> QED
  BY <1>1, <1>2, <1>3, <1>4, <1>5, <1>6, <1>7, <1>8

\* The engine that drops its guard follows an attempt the journal no longer names.
LEMMA DropOnCleanupKeeps ==
  ASSUME IInv, NEW p \in Proc, DropOnCleanup(p)
  PROVE  IInv'
<1> USE ProcAssumption, BoundAssumption DEF IInv
<1>1. TypeOK'
  BY DEF TypeOK, DropOnCleanup
<1>2. DeadIsClean'
  BY DEF DeadIsClean, DropOnCleanup
<1>3. OwnerIsJournalled'
  BY DEF OwnerIsJournalled, DropOnCleanup, CleanedIsFinal
<1>4. OwnerIsBound'
  BY DEF OwnerIsBound, DropOnCleanup, CleanedIsFinal
<1>5. AcquirerHolds'
  BY DEF AcquirerHolds, DropOnCleanup, Acquiring
<1>6. BindIsForeign'
  BY DEF BindIsForeign, DropOnCleanup, TypeOK
<1>7. AckIsOwn'
  BY DEF AckIsOwn, DropOnCleanup
<1>8. JournalWellFormed' /\ BeginReserved' /\ RecoveryProof' /\ CleanedIsFinal' /\
      CleanedWasIssued' /\ LostIsGone'
  BY DEF DropOnCleanup, JournalWellFormed, BeginReserved, RecoveryProof, CleanedIsFinal,
         CleanedWasIssued, LostIsGone, WellFormed, Missing, PendingBy
<1> QED
  BY <1>1, <1>2, <1>3, <1>4, <1>5, <1>6, <1>7, <1>8

\* The issuer lease is free, so no other start is under way.
LEMMA BeginAcquireKeeps ==
  ASSUME IInv, NEW u \in UiProc, BeginAcquire(u)
  PROVE  IInv'
<1> USE ProcAssumption, BoundAssumption DEF IInv
<1>1. TypeOK'
  BY DEF TypeOK, BeginAcquire, Acquire, PendingBy, Journal
<1>2. JournalWellFormed'
  BY DEF JournalWellFormed, BeginAcquire, TypeOK, WellFormed, Journal
<1>3. DeadIsClean'
  BY DEF DeadIsClean, BeginAcquire, Acquire
<1>4. OwnerIsJournalled'
  BY DEF OwnerIsJournalled, BeginAcquire, Acquire
<1>5. AcquirerHolds'
  BY DEF AcquirerHolds, BeginAcquire, Released, Acquire, TypeOK, Acquiring
<1>6. BeginReserved'
  <2> SUFFICES ASSUME NEW w \in UiProc, pc'[w] \in {"stampIssuer", "create"}
               PROVE  /\ rec'[w] = PendingBy(issued', w)
                      /\ issued' \in Attempt \ cleaned' /\ journal' = Missing
    BY DEF BeginReserved
  <2>1. w = u
    BY DEF BeginAcquire, Released, AcquirerHolds, Acquiring
  <2>2. issued + 1 \in Attempt \ cleaned
    BY DEF BeginAcquire, TypeOK, CleanedWasIssued
  <2> QED
    BY <2>1, <2>2 DEF BeginAcquire, TypeOK
<1>7. BindIsForeign'
  BY DEF BindIsForeign, BeginAcquire
<1>8. AckIsOwn'
  BY DEF AckIsOwn, BeginAcquire
<1>9. CleanedWasIssued'
  BY DEF CleanedWasIssued, BeginAcquire, TypeOK
<1>10. OwnerIsBound' /\ RecoveryProof' /\ CleanedIsFinal' /\ LostIsGone'
  BY DEF BeginAcquire, OwnerIsBound, RecoveryProof, CleanedIsFinal, LostIsGone,
         WellFormed, Missing
<1> QED
  BY <1>1, <1>2, <1>3, <1>4, <1>5, <1>6, <1>7, <1>8, <1>9, <1>10

\* The content of the issuer lease follows its lock.
LEMMA BeginStampKeeps ==
  ASSUME IInv, NEW u \in UiProc, BeginStamp(u)
  PROVE  IInv'
<1> USE ProcAssumption, BoundAssumption DEF IInv
<1>1. TypeOK'
  BY DEF TypeOK, BeginStamp, WriteRecord, Journal, LeaseRecord
<1>2. DeadIsClean'
  BY DEF DeadIsClean, BeginStamp
<1>3. AcquirerHolds'
  BY DEF AcquirerHolds, BeginStamp, Acquiring
<1>4. BeginReserved'
  BY DEF BeginReserved, BeginStamp
<1>5. BindIsForeign'
  BY DEF BindIsForeign, BeginStamp
<1>6. AckIsOwn'
  BY DEF AckIsOwn, BeginStamp
<1>7. JournalWellFormed' /\ OwnerIsJournalled' /\ OwnerIsBound' /\ RecoveryProof' /\
      CleanedIsFinal' /\ CleanedWasIssued' /\ LostIsGone'
  BY DEF BeginStamp, JournalWellFormed, OwnerIsJournalled, OwnerIsBound, RecoveryProof,
         CleanedIsFinal, CleanedWasIssued, LostIsGone, WellFormed, Missing
<1> QED
  BY <1>1, <1>2, <1>3, <1>4, <1>5, <1>6, <1>7

\* The new record names the reserved attempt, which was never cleaned.
LEMMA BeginCreateKeeps ==
  ASSUME IInv, ~DirSyncMayFail, NEW u \in UiProc, BeginCreate(u)
  PROVE  IInv'
<1> USE ProcAssumption, BoundAssumption DEF IInv
<1>t. Torn = {FALSE}
  BY DEF Torn
<1>a. rec[u] = PendingBy(issued, u) /\ issued \in Attempt \ cleaned /\ journal = Missing
  BY DEF BeginReserved, BeginCreate
<1>1. TypeOK'
  BY DEF TypeOK, BeginCreate, Journal
<1>2. JournalWellFormed'
  BY <1>a DEF BeginCreate, PendingBy, JournalWellFormed, WellFormed
<1>3. DeadIsClean'
  BY DEF DeadIsClean, BeginCreate
<1>4. OwnerIsJournalled'
  BY DEF OwnerIsJournalled, BeginCreate, Missing
<1>5. OwnerIsBound'
  BY <1>a DEF BeginCreate, PendingBy, OwnerIsBound
<1>6. AcquirerHolds'
  BY <1>t DEF AcquirerHolds, BeginCreate, Acquiring
<1>7. BeginReserved'
  <2> SUFFICES ASSUME NEW w \in UiProc, pc'[w] \in {"stampIssuer", "create"}
               PROVE  FALSE
    BY DEF BeginReserved
  <2>1. w # u /\ pc[w] \in {"stampIssuer", "create"}
    BY DEF BeginCreate, TypeOK
  <2> QED
    BY <2>1 DEF AcquirerHolds, Acquiring, BeginCreate
<1>8. BindIsForeign'
  BY DEF BindIsForeign, BeginCreate, TypeOK
<1>9. AckIsOwn'
  BY DEF AckIsOwn, BeginCreate
<1>10. RecoveryProof'
  BY DEF RecoveryProof, BeginCreate, Missing, WellFormed
<1>11. CleanedIsFinal'
  BY <1>a DEF BeginCreate, PendingBy, CleanedIsFinal
<1>12. CleanedWasIssued' /\ LostIsGone'
  BY DEF BeginCreate, CleanedWasIssued, LostIsGone
<1> QED
  BY <1>1, <1>2, <1>3, <1>4, <1>5, <1>6, <1>7, <1>8, <1>9, <1>10, <1>11, <1>12

\* A stop claims what the journal names.
LEMMA ClaimReadKeeps ==
  ASSUME IInv, NEW u \in UiProc, ClaimRead(u)
  PROVE  IInv'
<1> USE ProcAssumption, BoundAssumption DEF IInv
<1>1. TypeOK'
  BY DEF TypeOK, ClaimRead, Journal, LeaseRecord
<1>2. DeadIsClean'
  BY DEF DeadIsClean, ClaimRead, TypeOK
<1>3. AcquirerHolds'
  BY DEF AcquirerHolds, ClaimRead, TypeOK, Acquiring
<1>4. BeginReserved'
  BY DEF BeginReserved, ClaimRead, TypeOK
<1>5. BindIsForeign'
  BY DEF BindIsForeign, ClaimRead, TypeOK
<1>6. AckIsOwn'
  BY DEF AckIsOwn, ClaimRead, TypeOK
<1>7. JournalWellFormed' /\ OwnerIsJournalled' /\ OwnerIsBound' /\ RecoveryProof' /\
      CleanedIsFinal' /\ CleanedWasIssued' /\ LostIsGone'
  BY DEF ClaimRead, JournalWellFormed, OwnerIsJournalled, OwnerIsBound, RecoveryProof,
         CleanedIsFinal, CleanedWasIssued, LostIsGone, WellFormed, Missing
<1> QED
  BY <1>1, <1>2, <1>3, <1>4, <1>5, <1>6, <1>7

\* Only a pending record becomes a tombstone, so no owner loses its record.
LEMMA ClaimFenceKeeps ==
  ASSUME IInv, ~DirSyncMayFail, NEW u \in UiProc, ClaimFence(u)
  PROVE  IInv'
<1> USE ProcAssumption, BoundAssumption DEF IInv
<1>t. Torn = {FALSE}
  BY DEF Torn
<1>1. TypeOK'
  BY DEF TypeOK, ClaimFence, Stopping, Missing, Journal
<1>2. JournalWellFormed'
  BY DEF JournalWellFormed, ClaimFence, CanFence, Stopping, WellFormed
<1>3. DeadIsClean'
  BY DEF DeadIsClean, ClaimFence
<1>4. OwnerIsJournalled'
  BY DEF OwnerIsJournalled, ClaimFence, CanFence
<1>5. OwnerIsBound'
  BY DEF OwnerIsBound, ClaimFence, Stopping
<1>6. AcquirerHolds'
  BY DEF AcquirerHolds, ClaimFence, Acquiring
<1>7. BeginReserved'
  BY DEF BeginReserved, ClaimFence, CanFence, Missing
<1>8. BindIsForeign'
  BY DEF BindIsForeign, ClaimFence
<1>9. AckIsOwn'
  BY DEF AckIsOwn, ClaimFence
<1>10. RecoveryProof'
  BY DEF RecoveryProof, ClaimFence, CanFence, WellFormed
<1>11. CleanedIsFinal'
  BY DEF CleanedIsFinal, ClaimFence, Stopping
<1>12. CleanedWasIssued' /\ LostIsGone'
  BY DEF ClaimFence, CleanedWasIssued, LostIsGone
<1> QED
  BY <1>1, <1>2, <1>3, <1>4, <1>5, <1>6, <1>7, <1>8, <1>9, <1>10, <1>11, <1>12

\* The fence came too late.
LEMMA ClaimMissedKeeps ==
  ASSUME IInv, NEW u \in UiProc, ClaimMissed(u)
  PROVE  IInv'
<1> USE ProcAssumption, BoundAssumption DEF IInv
<1>1. TypeOK'
  BY DEF TypeOK, ClaimMissed
<1>2. DeadIsClean'
  BY DEF DeadIsClean, ClaimMissed
<1>3. AcquirerHolds'
  BY DEF AcquirerHolds, ClaimMissed, Acquiring
<1>4. BeginReserved'
  BY DEF BeginReserved, ClaimMissed
<1>5. BindIsForeign'
  BY DEF BindIsForeign, ClaimMissed
<1>6. AckIsOwn'
  BY DEF AckIsOwn, ClaimMissed
<1>7. JournalWellFormed' /\ OwnerIsJournalled' /\ OwnerIsBound' /\ RecoveryProof' /\
      CleanedIsFinal' /\ CleanedWasIssued' /\ LostIsGone'
  BY DEF ClaimMissed, JournalWellFormed, OwnerIsJournalled, OwnerIsBound, RecoveryProof,
         CleanedIsFinal, CleanedWasIssued, LostIsGone, WellFormed, Missing
<1> QED
  BY <1>1, <1>2, <1>3, <1>4, <1>5, <1>6, <1>7

\* The second read decides the claim.
LEMMA ClaimRereadKeeps ==
  ASSUME IInv, NEW u \in UiProc, ClaimReread(u)
  PROVE  IInv'
<1> USE ProcAssumption, BoundAssumption DEF IInv
<1>1. TypeOK'
  BY DEF TypeOK, ClaimReread, Missing, Journal
<1>2. DeadIsClean'
  BY DEF DeadIsClean, ClaimReread
<1>3. AcquirerHolds'
  BY DEF AcquirerHolds, ClaimReread, Acquiring
<1>4. BeginReserved'
  BY DEF BeginReserved, ClaimReread
<1>5. BindIsForeign'
  BY DEF BindIsForeign, ClaimReread
<1>6. AckIsOwn'
  BY DEF AckIsOwn, ClaimReread
<1>7. JournalWellFormed' /\ OwnerIsJournalled' /\ OwnerIsBound' /\ RecoveryProof' /\
      CleanedIsFinal' /\ CleanedWasIssued' /\ LostIsGone'
  BY DEF ClaimReread, JournalWellFormed, OwnerIsJournalled, OwnerIsBound, RecoveryProof,
         CleanedIsFinal, CleanedWasIssued, LostIsGone, WellFormed, Missing
<1> QED
  BY <1>1, <1>2, <1>3, <1>4, <1>5, <1>6, <1>7

\* Recovery starts without a record.
LEMMA ConfirmStopKeeps ==
  ASSUME IInv, NEW u \in UiProc, ConfirmStop(u)
  PROVE  IInv'
<1> USE ProcAssumption, BoundAssumption DEF IInv
<1>1. TypeOK'
  BY DEF TypeOK, ConfirmStop, GotoRecover, Missing, Journal
<1>2. RecoveryProof'
  BY DEF RecoveryProof, ConfirmStop, GotoRecover, WellFormed
<1>3. JournalWellFormed' /\ DeadIsClean' /\ OwnerIsJournalled' /\ OwnerIsBound' /\
      AcquirerHolds' /\ BeginReserved' /\ BindIsForeign' /\ AckIsOwn' /\ CleanedIsFinal'
      /\ CleanedWasIssued' /\ LostIsGone'
  BY DEF ConfirmStop, JournalWellFormed, DeadIsClean, OwnerIsJournalled, OwnerIsBound,
         AcquirerHolds, BeginReserved, BindIsForeign, AckIsOwn, CleanedIsFinal,
         CleanedWasIssued, LostIsGone, WellFormed, Missing, Acquiring, PendingBy
<1> QED
  BY <1>1, <1>2, <1>3

\* What recovery reads is the journal.
LEMMA RecoverReadKeeps ==
  ASSUME IInv, NEW u \in UiProc, RecoverRead(u)
  PROVE  IInv'
<1> USE ProcAssumption, BoundAssumption DEF IInv
<1>1. TypeOK'
  BY DEF TypeOK, RecoverRead, Missing, GotoRecover, Journal
<1>2. RecoveryProof'
  BY DEF RecoveryProof, RecoverRead, GotoRecover, TypeOK, WellFormed, JournalWellFormed
<1>3. JournalWellFormed' /\ DeadIsClean' /\ OwnerIsJournalled' /\ OwnerIsBound' /\
      AcquirerHolds' /\ BeginReserved' /\ BindIsForeign' /\ AckIsOwn' /\ CleanedIsFinal'
      /\ CleanedWasIssued' /\ LostIsGone'
  BY DEF RecoverRead, JournalWellFormed, DeadIsClean, OwnerIsJournalled, OwnerIsBound,
         AcquirerHolds, BeginReserved, BindIsForeign, AckIsOwn, CleanedIsFinal,
         CleanedWasIssued, LostIsGone, WellFormed, Missing, Acquiring, PendingBy
<1> QED
  BY <1>1, <1>2, <1>3

\* A released lease proves that the owner recovery read is dead: a running owner
\* would hold it.
LEMMA RecoverObserveKeeps ==
  ASSUME IInv, NEW u \in UiProc, RecoverObserve(u)
  PROVE  IInv'
<1> USE ProcAssumption, BoundAssumption DEF IInv
<1>1. TypeOK'
  <2>1. \E label \in {"idle", "read", "delete"}, j \in {Missing, rrec[u]} : GotoRecover(u, label, j)
    BY DEF RecoverObserve
  <2>2. rrec[u] \in Journal /\ Missing \in Journal
    BY DEF TypeOK, Journal, Missing
  <2>3. rpc' \in [UiProc -> {"idle", "read", "observe", "delete"}] /\ rrec' \in [UiProc -> Journal]
    BY <2>1, <2>2 DEF GotoRecover, TypeOK
  <2> QED
    BY <2>3 DEF RecoverObserve, TypeOK
<1>2. RecoveryProof'
  BY DEF RecoveryProof, RecoverObserve, Released, OwnerRole, GotoRecover, TypeOK,
         WellFormed, OwnerIsBound, OwnerIsJournalled
<1>3. JournalWellFormed' /\ DeadIsClean' /\ OwnerIsJournalled' /\ OwnerIsBound' /\
      AcquirerHolds' /\ BeginReserved' /\ BindIsForeign' /\ AckIsOwn' /\ CleanedIsFinal'
      /\ CleanedWasIssued' /\ LostIsGone'
  BY DEF RecoverObserve, JournalWellFormed, DeadIsClean, OwnerIsJournalled, OwnerIsBound,
         AcquirerHolds, BeginReserved, BindIsForeign, AckIsOwn, CleanedIsFinal,
         CleanedWasIssued, LostIsGone, WellFormed, Missing, Acquiring, PendingBy
<1> QED
  BY <1>1, <1>2, <1>3

\* The record deleted has no running owner: recovery proved its death, and a
\* replacement would have changed the record.
LEMMA RecoverDeleteKeeps ==
  ASSUME IInv, ~DirSyncMayFail, NEW u \in UiProc, RecoverDelete(u)
  PROVE  IInv'
<1> USE ProcAssumption, BoundAssumption DEF IInv
<1>t. Torn = {FALSE}
  BY DEF Torn
<1>a. rpc[u] = "delete"
  BY DEF RecoverDelete
<1>b. CanDelete(journal, rrec[u]) => rrec[u].attempt \in Attempt /\ rrec[u].attempt <= issued
  BY DEF CanDelete, JournalWellFormed, WellFormed
<1>1. TypeOK'
  <2>1. rrec[u] \in Journal /\ Missing \in Journal
    BY DEF TypeOK, Journal, Missing
  <2>2. \E label \in {"idle", "read"}, j \in {Missing, rrec[u]} : GotoRecover(u, label, j)
    BY DEF RecoverDelete
  <2>3. rpc' \in [UiProc -> {"idle", "read", "observe", "delete"}] /\ rrec' \in [UiProc -> Journal]
    BY <2>1, <2>2 DEF GotoRecover, TypeOK
  <2>4. journal' \in {journal, Missing}
    BY DEF RecoverDelete
  <2>5. cleaned' \subseteq Attempt
    <3>1. CASE CanDelete(journal, rrec[u])
      <4>1. cleaned' = cleaned \cup {rrec[u].attempt}
        BY <1>t, <3>1 DEF RecoverDelete
      <4>2. cleaned \subseteq Attempt
        BY DEF TypeOK
      <4> QED
        BY ONLY <1>b, <3>1, <4>1, <4>2
    <3>2. CASE ~CanDelete(journal, rrec[u])
      <4>1. cleaned' = cleaned
        BY <3>2 DEF RecoverDelete
      <4> QED
        BY <4>1 DEF TypeOK
    <3> QED
      BY ONLY <3>1, <3>2
  <2> QED
    BY <2>1, <2>3, <2>4, <2>5 DEF RecoverDelete, TypeOK
<1>2. JournalWellFormed'
  BY DEF JournalWellFormed, RecoverDelete, Missing, TypeOK, WellFormed
<1>3. OwnerIsJournalled'
  <2> SUFFICES ASSUME NEW e \in ExtProc, bound[e] # NoAttempt, CanDelete(journal, rrec[u])
               PROVE  FALSE
    BY DEF OwnerIsJournalled, RecoverDelete
  <2>1. e \in alive /\ journal.extension = e
    BY DEF OwnerIsJournalled, DeadIsClean
  <2>2. rrec[u].phase = "Attached" /\ rrec[u].extension = e
    BY <1>a, <2>1 DEF CanDelete, RecoveryProof, WellFormed
  <2>3. rrec[u].attempt \in cleaned
    BY <1>a, <2>1, <2>2 DEF RecoveryProof
  <2> QED
    BY <2>3 DEF CanDelete, CleanedIsFinal
<1>4. OwnerIsBound'
  BY DEF OwnerIsBound, RecoverDelete, Missing
<1>5. BeginReserved'
  BY DEF BeginReserved, RecoverDelete, CanDelete, Missing
<1>6. RecoveryProof'
  BY DEF RecoveryProof, RecoverDelete, CanDelete, GotoRecover, TypeOK, WellFormed
<1>7. CleanedIsFinal'
  <2>1. CASE CanDelete(journal, rrec[u])
    <3>1. journal' = Missing /\ cleaned' = cleaned \cup {rrec[u].attempt}
      BY <1>t, <2>1 DEF RecoverDelete
    <3> QED
      BY <1>b, <2>1, <3>1 DEF CleanedIsFinal, TypeOK, Missing
  <2>2. CASE ~CanDelete(journal, rrec[u])
    BY <2>2 DEF RecoverDelete, CleanedIsFinal
  <2> QED
    BY <2>1, <2>2
<1>8. CleanedWasIssued'
  BY <1>t, <1>b DEF RecoverDelete, CleanedWasIssued
<1>9. DeadIsClean' /\ AcquirerHolds' /\ BindIsForeign' /\ AckIsOwn' /\ LostIsGone'
  BY DEF RecoverDelete, DeadIsClean, AcquirerHolds, BindIsForeign, AckIsOwn, LostIsGone,
         Acquiring
<1> QED
  BY <1>1, <1>2, <1>3, <1>4, <1>5, <1>6, <1>7, <1>8, <1>9

\* The probe takes a free lease.
LEMMA ProbeLockKeeps ==
  ASSUME IInv, NEW u \in UiProc, ProbeLock(u)
  PROVE  IInv'
<1> USE ProcAssumption, BoundAssumption DEF IInv
<1>1. TypeOK'
  BY DEF TypeOK, ProbeLock, Acquire
<1>2. DeadIsClean'
  BY DEF DeadIsClean, ProbeLock, Acquire
<1>3. OwnerIsJournalled'
  BY DEF OwnerIsJournalled, ProbeLock, Released
<1>4. AcquirerHolds'
  BY DEF AcquirerHolds, ProbeLock, Released, Acquire, TypeOK, Acquiring
<1>5. BeginReserved'
  BY DEF BeginReserved, ProbeLock
<1>6. BindIsForeign'
  BY DEF BindIsForeign, ProbeLock
<1>7. AckIsOwn'
  BY DEF AckIsOwn, ProbeLock
<1>8. JournalWellFormed' /\ OwnerIsBound' /\ RecoveryProof' /\ CleanedIsFinal' /\
      CleanedWasIssued' /\ LostIsGone'
  BY DEF ProbeLock, JournalWellFormed, OwnerIsBound, RecoveryProof, CleanedIsFinal,
         CleanedWasIssued, LostIsGone, WellFormed, Missing
<1> QED
  BY <1>1, <1>2, <1>3, <1>4, <1>5, <1>6, <1>7, <1>8

\* The probe holds the Extension lease, so the owner it finds in the journal is dead.
LEMMA ProbeJudgeKeeps ==
  ASSUME IInv, NEW u \in UiProc, ProbeJudge(u)
  PROVE  IInv'
<1> USE ProcAssumption, BoundAssumption DEF IInv
<1>a. holder["extension"] = u /\ u \notin ExtProc /\ u # NoProc
  BY DEF ProbeJudge, AcquirerHolds, Acquiring
<1>b. journal.phase = "Attached" =>
        /\ journal.attempt \in Attempt
        /\ journal.extension \in ExtProc /\ journal.extension \in started \ alive
  <2> SUFFICES ASSUME journal.phase = "Attached" PROVE journal.extension \notin alive
    BY DEF JournalWellFormed, WellFormed
  <2>1. journal.extension \in ExtProc /\ journal.attempt \in Attempt
    BY DEF JournalWellFormed, WellFormed
  <2> QED
    BY <1>a, <2>1 DEF OwnerIsBound, OwnerIsJournalled
<1>1. TypeOK'
  <2>1. lost' \subseteq Attempt \X ExtProc
    BY <1>b DEF ProbeJudge, TypeOK
  <2>2. holder' \in [Role -> Proc \cup {NoProc}]
    BY DEF ProbeJudge, Drop, TypeOK
  <2> QED
    BY <2>1, <2>2 DEF ProbeJudge, TypeOK, Journal, Missing
<1>2. DeadIsClean'
  BY DEF DeadIsClean, ProbeJudge, Drop
<1>3. OwnerIsJournalled'
  BY DEF OwnerIsJournalled, ProbeJudge, Drop
<1>4. AcquirerHolds'
  BY DEF AcquirerHolds, ProbeJudge, Drop, TypeOK, Acquiring
<1>5. BeginReserved'
  BY DEF BeginReserved, ProbeJudge
<1>6. BindIsForeign'
  BY DEF BindIsForeign, ProbeJudge
<1>7. AckIsOwn'
  BY DEF AckIsOwn, ProbeJudge
<1>8. LostIsGone'
  BY <1>b DEF ProbeJudge, LostIsGone
<1>9. JournalWellFormed' /\ OwnerIsBound' /\ RecoveryProof' /\ CleanedIsFinal' /\
      CleanedWasIssued'
  BY DEF ProbeJudge, JournalWellFormed, OwnerIsBound, RecoveryProof, CleanedIsFinal,
         CleanedWasIssued, WellFormed, Missing
<1> QED
  BY <1>1, <1>2, <1>3, <1>4, <1>5, <1>6, <1>7, <1>8, <1>9

\* The record read is not the binding process's own.
LEMMA BindReadKeeps ==
  ASSUME IInv, NEW e \in ExtProc, BindRead(e)
  PROVE  IInv'
<1> USE ProcAssumption, BoundAssumption DEF IInv
<1>1. TypeOK'
  BY DEF TypeOK, BindRead, BindStep
<1>2. DeadIsClean'
  BY DEF DeadIsClean, BindRead
<1>3. AcquirerHolds'
  BY DEF AcquirerHolds, BindRead, BindStep, Acquiring
<1>4. BeginReserved'
  BY DEF BeginReserved, BindRead
<1>5. BindIsForeign'
  <2>1. e \in alive /\ rec' = [rec EXCEPT ![e] = journal] /\ pc' = [pc EXCEPT ![e] = BindStep(e)]
        /\ bound' = bound
    BY DEF BindRead
  <2>2. bound[e] = NoAttempt
    BY DEF BindRead, OwnerIsJournalled
  <2>3. journal.extension # e /\ journal.attempt \in Attempt
    BY <2>1, <2>2 DEF BindRead, OwnerIsBound, JournalWellFormed, WellFormed
  <2>4. BindStep(e) # "keep"
    BY DEF BindStep, BindRead
  <2> QED
    BY <2>1, <2>2, <2>3, <2>4 DEF BindIsForeign, TypeOK
<1>6. AckIsOwn'
  BY DEF AckIsOwn, BindRead, BindStep
<1>7. JournalWellFormed' /\ OwnerIsJournalled' /\ OwnerIsBound' /\ RecoveryProof' /\
      CleanedIsFinal' /\ CleanedWasIssued' /\ LostIsGone'
  BY DEF BindRead, JournalWellFormed, OwnerIsJournalled, OwnerIsBound, RecoveryProof,
         CleanedIsFinal, CleanedWasIssued, LostIsGone, WellFormed, Missing
<1> QED
  BY <1>1, <1>2, <1>3, <1>4, <1>5, <1>6, <1>7

\* The issuer is observed, nothing is written.
LEMMA BindCheckIssuerKeeps ==
  ASSUME IInv, NEW e \in ExtProc, BindCheckIssuer(e)
  PROVE  IInv'
<1> USE ProcAssumption, BoundAssumption DEF IInv
<1>1. TypeOK'
  BY DEF TypeOK, BindCheckIssuer
<1>2. DeadIsClean'
  BY DEF DeadIsClean, BindCheckIssuer
<1>3. AcquirerHolds'
  BY DEF AcquirerHolds, BindCheckIssuer, Acquiring
<1>4. BeginReserved'
  BY DEF BeginReserved, BindCheckIssuer
<1>5. BindIsForeign'
  BY DEF BindIsForeign, BindCheckIssuer
<1>6. AckIsOwn'
  BY DEF AckIsOwn, BindCheckIssuer
<1>7. JournalWellFormed' /\ OwnerIsJournalled' /\ OwnerIsBound' /\ RecoveryProof' /\
      CleanedIsFinal' /\ CleanedWasIssued' /\ LostIsGone'
  BY DEF BindCheckIssuer, JournalWellFormed, OwnerIsJournalled, OwnerIsBound,
         RecoveryProof, CleanedIsFinal, CleanedWasIssued, LostIsGone, WellFormed, Missing
<1> QED
  BY <1>1, <1>2, <1>3, <1>4, <1>5, <1>6, <1>7

\* The previous owner is observed, nothing is written.
LEMMA BindCheckPrevKeeps ==
  ASSUME IInv, NEW e \in ExtProc, BindCheckPrev(e)
  PROVE  IInv'
<1> USE ProcAssumption, BoundAssumption DEF IInv
<1>1. TypeOK'
  BY DEF TypeOK, BindCheckPrev
<1>2. DeadIsClean'
  BY DEF DeadIsClean, BindCheckPrev
<1>3. AcquirerHolds'
  BY DEF AcquirerHolds, BindCheckPrev, Acquiring
<1>4. BeginReserved'
  BY DEF BeginReserved, BindCheckPrev
<1>5. BindIsForeign'
  BY DEF BindIsForeign, BindCheckPrev
<1>6. AckIsOwn'
  BY DEF AckIsOwn, BindCheckPrev
<1>7. JournalWellFormed' /\ OwnerIsJournalled' /\ OwnerIsBound' /\ RecoveryProof' /\
      CleanedIsFinal' /\ CleanedWasIssued' /\ LostIsGone'
  BY DEF BindCheckPrev, JournalWellFormed, OwnerIsJournalled, OwnerIsBound, RecoveryProof,
         CleanedIsFinal, CleanedWasIssued, LostIsGone, WellFormed, Missing
<1> QED
  BY <1>1, <1>2, <1>3, <1>4, <1>5, <1>6, <1>7

\* The Extension lease is free, so no owner is running.
LEMMA BindAcquireKeeps ==
  ASSUME IInv, NEW e \in ExtProc, BindAcquire(e)
  PROVE  IInv'
<1> USE ProcAssumption, BoundAssumption DEF IInv
<1>1. TypeOK'
  BY DEF TypeOK, BindAcquire, Acquire
<1>2. DeadIsClean'
  BY DEF DeadIsClean, BindAcquire, Acquire
<1>3. OwnerIsJournalled'
  BY DEF OwnerIsJournalled, BindAcquire, Released
<1>4. AcquirerHolds'
  BY DEF AcquirerHolds, BindAcquire, Released, Acquire, TypeOK, Acquiring
<1>5. BeginReserved'
  BY DEF BeginReserved, BindAcquire
<1>6. BindIsForeign'
  BY DEF BindIsForeign, BindAcquire
<1>7. AckIsOwn'
  BY DEF AckIsOwn, BindAcquire
<1>8. JournalWellFormed' /\ OwnerIsBound' /\ RecoveryProof' /\ CleanedIsFinal' /\
      CleanedWasIssued' /\ LostIsGone'
  BY DEF BindAcquire, JournalWellFormed, OwnerIsBound, RecoveryProof, CleanedIsFinal,
         CleanedWasIssued, LostIsGone, WellFormed, Missing
<1> QED
  BY <1>1, <1>2, <1>3, <1>4, <1>5, <1>6, <1>7, <1>8

\* The content of the Extension lease follows its lock.
LEMMA BindStampKeeps ==
  ASSUME IInv, NEW e \in ExtProc, BindStamp(e)
  PROVE  IInv'
<1> USE ProcAssumption, BoundAssumption DEF IInv
<1>1. TypeOK'
  BY DEF TypeOK, BindStamp, WriteRecord, Journal, LeaseRecord
<1>2. DeadIsClean'
  BY DEF DeadIsClean, BindStamp
<1>3. AcquirerHolds'
  BY DEF AcquirerHolds, BindStamp, Acquiring
<1>4. BeginReserved'
  BY DEF BeginReserved, BindStamp
<1>5. BindIsForeign'
  BY DEF BindIsForeign, BindStamp
<1>6. AckIsOwn'
  BY DEF AckIsOwn, BindStamp
<1>7. JournalWellFormed' /\ OwnerIsJournalled' /\ OwnerIsBound' /\ RecoveryProof' /\
      CleanedIsFinal' /\ CleanedWasIssued' /\ LostIsGone'
  BY DEF BindStamp, JournalWellFormed, OwnerIsJournalled, OwnerIsBound, RecoveryProof,
         CleanedIsFinal, CleanedWasIssued, LostIsGone, WellFormed, Missing
<1> QED
  BY <1>1, <1>2, <1>3, <1>4, <1>5, <1>6, <1>7

\* The binding process holds the Extension lease, so it replaces no running owner;
\* a failed swap leaves no guard behind.
LEMMA BindSwapKeeps ==
  ASSUME IInv, ~DirSyncMayFail, NEW e \in ExtProc, BindSwap(e)
  PROVE  IInv'
<1> USE ProcAssumption, BoundAssumption DEF IInv
<1>t. Torn = {FALSE}
  BY DEF Torn
<1>a. e \in alive /\ pc[e] = "swap" /\ e \in Proc /\ e \notin UiProc /\ e # NoProc
  BY DEF BindSwap
<1>b. holder["extension"] = e
  BY <1>a DEF AcquirerHolds, Acquiring
<1>c. \A f \in ExtProc : bound[f] = NoAttempt
  BY <1>a, <1>b DEF OwnerIsJournalled, BindIsForeign
<1>d. journal.phase = "Attached" => journal.extension \notin alive
  BY <1>c DEF OwnerIsBound, JournalWellFormed, WellFormed
<1>e. \/ /\ journal' = journal /\ bound' = bound
         /\ holder' = [holder EXCEPT !["extension"] = NoProc]
      \/ /\ journal' = AttachedTo(journal, e) /\ holder' = holder
         /\ bound' = [bound EXCEPT ![e] = rec[e].attempt]
         /\ rec[e].attempt = journal.attempt /\ journal.phase \in {"Pending", "Attached"}
  BY <1>b, <1>t DEF BindSwap, Drop, TypeOK, CanSwap, CanUpgrade, CanRebind
<1>f. journal.phase \in {"Pending", "Attached"} => journal.attempt \in Attempt
  BY DEF JournalWellFormed, WellFormed
<1>g. /\ AttachedTo(journal, e).phase = "Attached" /\ AttachedTo(journal, e).extension = e
      /\ AttachedTo(journal, e).attempt = journal.attempt
      /\ AttachedTo(journal, e).issuer = journal.issuer
      /\ AttachedTo(journal, e) \in Journal
  BY DEF AttachedTo, TypeOK, Journal
<1>1. TypeOK'
  <2>1. journal' \in Journal
    BY <1>e, <1>g DEF TypeOK
  <2>2. holder' \in [Role -> Proc \cup {NoProc}] /\ bound' \in [Proc -> Attempt \cup {NoAttempt}]
    BY <1>a, <1>e, <1>f DEF TypeOK
  <2> QED
    BY <2>1, <2>2 DEF BindSwap, TypeOK, Journal, Missing
<1>2. JournalWellFormed'
  BY <1>a, <1>e, <1>f, <1>g DEF BindSwap, JournalWellFormed, WellFormed, TypeOK
<1>3. DeadIsClean'
  BY DEF DeadIsClean, BindSwap, Drop, TypeOK
<1>4. OwnerIsJournalled'
  BY <1>a, <1>b, <1>c, <1>e, <1>g DEF OwnerIsJournalled, TypeOK
<1>5. OwnerIsBound'
  BY <1>a, <1>d, <1>e, <1>g DEF OwnerIsBound, BindSwap, TypeOK
<1>6. AcquirerHolds'
  BY DEF AcquirerHolds, BindSwap, Drop, TypeOK, Acquiring
<1>7. BeginReserved'
  BY DEF BeginReserved, BindSwap, CanSwap, CanUpgrade, CanRebind, Missing
<1>8. BindIsForeign'
  BY DEF BindIsForeign, BindSwap, TypeOK
<1>9. AckIsOwn'
  BY DEF AckIsOwn, BindSwap, TypeOK
<1>10. RecoveryProof'
  <2> SUFFICES ASSUME NEW w \in UiProc, rpc[w] = "observe", rrec[w].phase = "Attached",
                      rrec[w].extension \in alive, rrec[w].attempt \notin cleaned
               PROVE  journal' = rrec[w]
    BY DEF RecoveryProof, BindSwap, WellFormed
  <2>1. journal = rrec[w]
    BY DEF RecoveryProof
  <2> QED
    BY <1>d, <2>1
<1>11. CleanedIsFinal'
  BY <1>e, <1>g DEF BindSwap, CleanedIsFinal
<1>12. CleanedWasIssued' /\ LostIsGone'
  BY DEF BindSwap, CleanedWasIssued, LostIsGone
<1> QED
  BY <1>1, <1>2, <1>3, <1>4, <1>5, <1>6, <1>7, <1>8, <1>9, <1>10, <1>11, <1>12

\* A binding never reads its own record, so this step is not taken.
LEMMA BindKeepKeeps ==
  ASSUME IInv, NEW e \in ExtProc, BindKeep(e)
  PROVE  IInv'
<1> USE ProcAssumption, BoundAssumption DEF IInv
<1>1. TypeOK'
  BY DEF TypeOK, BindKeep, Missing, Journal
<1>2. DeadIsClean'
  BY DEF DeadIsClean, BindKeep
<1>3. OwnerIsJournalled'
  BY DEF BindKeep, BindIsForeign
<1>4. OwnerIsBound'
  BY DEF OwnerIsBound, BindKeep, BindIsForeign
<1>5. AcquirerHolds'
  BY DEF AcquirerHolds, BindKeep, Acquiring
<1>6. BeginReserved'
  BY DEF BeginReserved, BindKeep
<1>7. BindIsForeign'
  BY DEF BindIsForeign, BindKeep, TypeOK
<1>8. AckIsOwn'
  BY DEF AckIsOwn, BindKeep
<1>9. JournalWellFormed' /\ RecoveryProof' /\ CleanedIsFinal' /\ CleanedWasIssued' /\
      LostIsGone'
  BY DEF BindKeep, JournalWellFormed, RecoveryProof, CleanedIsFinal, CleanedWasIssued,
         LostIsGone, WellFormed, Missing
<1> QED
  BY <1>1, <1>2, <1>3, <1>4, <1>5, <1>6, <1>7, <1>8, <1>9

\* The record read is the owner's own.
LEMMA AckReadKeeps ==
  ASSUME IInv, NEW e \in ExtProc, AckRead(e)
  PROVE  IInv'
<1> USE ProcAssumption, BoundAssumption DEF IInv
<1>1. TypeOK'
  BY DEF TypeOK, AckRead
<1>2. DeadIsClean'
  BY DEF DeadIsClean, AckRead
<1>3. AcquirerHolds'
  BY DEF AcquirerHolds, AckRead, Acquiring
<1>4. BeginReserved'
  BY DEF BeginReserved, AckRead
<1>5. BindIsForeign'
  BY DEF BindIsForeign, AckRead
<1>6. AckIsOwn'
  BY DEF AckIsOwn, AckRead, TypeOK
<1>7. JournalWellFormed' /\ OwnerIsJournalled' /\ OwnerIsBound' /\ RecoveryProof' /\
      CleanedIsFinal' /\ CleanedWasIssued' /\ LostIsGone'
  BY DEF AckRead, JournalWellFormed, OwnerIsJournalled, OwnerIsBound, RecoveryProof,
         CleanedIsFinal, CleanedWasIssued, LostIsGone, WellFormed, Missing
<1> QED
  BY <1>1, <1>2, <1>3, <1>4, <1>5, <1>6, <1>7

\* The owner deletes its own record and returns its lease.
LEMMA AckDeleteKeeps ==
  ASSUME IInv, ~DirSyncMayFail, NEW e \in ExtProc, AckDelete(e)
  PROVE  IInv'
<1> USE ProcAssumption, BoundAssumption DEF IInv
<1>t. Torn = {FALSE}
  BY DEF Torn
<1>a. e \in alive /\ pc[e] = "ack" /\ holder["extension"] = e /\ bound[e] = journal.attempt
      /\ rec[e].attempt = journal.attempt
  BY DEF AckDelete, CanDelete, AckIsOwn, OwnerIsJournalled
<1>b. journal.attempt \in Attempt
  BY DEF AckDelete, CanDelete, JournalWellFormed, WellFormed
<1>c. /\ journal' = Missing /\ cleaned' = cleaned \cup {journal.attempt}
      /\ bound' = [bound EXCEPT ![e] = NoAttempt]
      /\ holder' = [holder EXCEPT !["extension"] = NoProc]
  BY <1>a, <1>t DEF AckDelete
<1>1. TypeOK'
  <2>1. Missing \in Journal
    BY DEF Journal, Missing
  <2>2. /\ journal' \in Journal /\ cleaned' \subseteq Attempt
        /\ holder' \in [Role -> Proc \cup {NoProc}] /\ bound' \in [Proc -> Attempt \cup {NoAttempt}]
    BY <1>b, <1>c, <2>1 DEF TypeOK
  <2> QED
    BY <2>1, <2>2 DEF AckDelete, TypeOK
<1>2. JournalWellFormed'
  BY DEF JournalWellFormed, AckDelete, Missing, TypeOK, WellFormed
<1>3. DeadIsClean'
  BY DEF DeadIsClean, AckDelete
<1>4. OwnerIsJournalled'
  BY <1>t DEF OwnerIsJournalled, AckDelete, TypeOK, AckIsOwn
<1>5. OwnerIsBound'
  BY DEF OwnerIsBound, AckDelete, Missing
<1>6. AcquirerHolds'
  <2> SUFFICES ASSUME NEW p \in Proc, NEW role \in Role, Acquiring(p, role)'
               PROVE  holder'[role] = p
    BY DEF AcquirerHolds
  <2>1. p # e /\ Acquiring(p, role)
    BY DEF Acquiring, AckDelete, TypeOK
  <2>2. holder[role] = p /\ role # "extension"
    BY <1>a, <2>1 DEF AcquirerHolds
  <2> QED
    BY <1>c, <2>2 DEF TypeOK
<1>7. BeginReserved'
  BY DEF BeginReserved, AckDelete, CanDelete, Missing
<1>8. BindIsForeign'
  BY DEF BindIsForeign, AckDelete, TypeOK
<1>9. AckIsOwn'
  BY DEF AckIsOwn, AckDelete, TypeOK
<1>10. RecoveryProof'
  BY <1>t DEF RecoveryProof, AckDelete, CanDelete, WellFormed
<1>11. CleanedIsFinal'
  BY <1>b, <1>c DEF CleanedIsFinal, TypeOK, Missing
<1>12. CleanedWasIssued'
  BY DEF CleanedWasIssued, AckDelete, CanDelete, Missing, JournalWellFormed
<1>13. LostIsGone'
  BY DEF AckDelete, LostIsGone
<1> QED
  BY <1>1, <1>2, <1>3, <1>4, <1>5, <1>6, <1>7, <1>8, <1>9, <1>10, <1>11, <1>12, <1>13

\* A pending record has no owner.
LEMMA FailUnattachedKeeps ==
  ASSUME IInv, ~DirSyncMayFail, NEW e \in ExtProc, FailUnattached(e)
  PROVE  IInv'
<1> USE ProcAssumption, BoundAssumption DEF IInv
<1>t. Torn = {FALSE}
  BY DEF Torn
<1>a. journal.attempt \in Attempt
  BY DEF FailUnattached, JournalWellFormed, WellFormed
<1>b. /\ journal' = Missing /\ cleaned' = cleaned \cup {journal.attempt}
      /\ bound' = [bound EXCEPT ![e] = NoAttempt] /\ Drop("extension", e)
  BY <1>t DEF FailUnattached
<1>1. TypeOK'
  <2>1. Missing \in Journal
    BY DEF Journal, Missing
  <2>2. /\ journal' \in Journal /\ cleaned' \subseteq Attempt
        /\ holder' \in [Role -> Proc \cup {NoProc}] /\ bound' \in [Proc -> Attempt \cup {NoAttempt}]
    BY <1>a, <1>b, <2>1 DEF TypeOK, Drop
  <2> QED
    BY <2>2 DEF FailUnattached, TypeOK
<1>2. JournalWellFormed'
  BY DEF JournalWellFormed, FailUnattached, Missing, TypeOK, WellFormed
<1>3. DeadIsClean'
  BY DEF DeadIsClean, FailUnattached, Drop, TypeOK
<1>4. OwnerIsJournalled'
  BY DEF OwnerIsJournalled, FailUnattached
<1>5. OwnerIsBound'
  BY DEF OwnerIsBound, FailUnattached, Missing
<1>6. AcquirerHolds'
  BY DEF AcquirerHolds, FailUnattached, Drop, TypeOK, Acquiring
<1>7. BeginReserved'
  BY DEF BeginReserved, FailUnattached, Missing
<1>8. BindIsForeign'
  BY DEF BindIsForeign, FailUnattached, Drop, TypeOK
<1>9. AckIsOwn'
  BY DEF AckIsOwn, FailUnattached
<1>10. RecoveryProof'
  BY DEF RecoveryProof, FailUnattached, WellFormed
<1>11. CleanedIsFinal'
  BY <1>a, <1>b DEF CleanedIsFinal, TypeOK, Missing
<1>12. CleanedWasIssued'
  BY DEF CleanedWasIssued, FailUnattached, Missing, JournalWellFormed, Journal
<1>13. LostIsGone'
  BY DEF FailUnattached, LostIsGone
<1> QED
  BY <1>1, <1>2, <1>3, <1>4, <1>5, <1>6, <1>7, <1>8, <1>9, <1>10, <1>11, <1>12, <1>13

-----------------------------------------------------------------------------
(* The invariant of the specification                                      *)

\* The initial state: nothing runs and the journal is missing.
LEMMA InitHolds == Init => IInv
BY ProcAssumption, BoundAssumption
   DEF Init, IInv, TypeOK, JournalWellFormed, DeadIsClean, OwnerIsJournalled, OwnerIsBound,
       AcquirerHolds, BeginReserved, BindIsForeign, AckIsOwn, RecoveryProof, CleanedIsFinal,
       CleanedWasIssued, LostIsGone, WellFormed, Acquiring, Missing, Journal, LeaseRecord

\* A step that changes no variable keeps the invariant.
LEMMA StutterHolds == IInv /\ UNCHANGED vars => IInv'
BY DEF vars, IInv, TypeOK, JournalWellFormed, DeadIsClean, OwnerIsJournalled, OwnerIsBound,
       AcquirerHolds, BeginReserved, BindIsForeign, AckIsOwn, RecoveryProof, CleanedIsFinal,
       CleanedWasIssued, LostIsGone, WellFormed, Acquiring

\* Every step of every process keeps the invariant.
LEMMA NextHolds ==
  ASSUME IInv, ~DirSyncMayFail, Next
  PROVE  IInv'
<1>1. ASSUME NEW p \in Proc, ProcStep(p) PROVE IInv'
  BY <1>1, LaunchKeeps, DieKeeps, AbandonKeeps, DropOnCleanupKeeps DEF ProcStep
<1>2. ASSUME NEW u \in UiProc, UiStep(u) PROVE IInv'
  BY <1>2, BeginAcquireKeeps, BeginStampKeeps, BeginCreateKeeps, ClaimReadKeeps,
     ClaimFenceKeeps, ClaimMissedKeeps, ClaimRereadKeeps, ConfirmStopKeeps, RecoverReadKeeps,
     RecoverObserveKeeps, RecoverDeleteKeeps, ProbeLockKeeps, ProbeJudgeKeeps DEF UiStep
<1>3. ASSUME NEW e \in ExtProc, ExtStep(e) PROVE IInv'
  BY <1>3, BindReadKeeps, BindCheckIssuerKeeps, BindCheckPrevKeeps, BindAcquireKeeps,
     BindStampKeeps, BindSwapKeeps, BindKeepKeeps, AckReadKeeps, AckDeleteKeeps,
     FailUnattachedKeeps DEF ExtStep
<1> QED
  BY <1>1, <1>2, <1>3 DEF Next

\* While the journal's directory can be synced, every reachable state satisfies the
\* inductive invariant of the journal and its leases.
THEOREM Invariant ==
  ASSUME ~DirSyncMayFail
  PROVE  Spec => []IInv
<1>1. IInv /\ [Next]_vars => IInv'
  BY NextHolds, StutterHolds
<1> QED
  BY <1>1, InitHolds, PTL DEF Spec

\* An Extension whose engine stores an owner lease is the one the journal names, and
\* holds the lock (bind_platform_vpn_start): two never own the tunnel together.
THEOREM OneOwner ==
  ASSUME ~DirSyncMayFail
  PROVE  Spec => []OwnerIsJournalled
BY Invariant, PTL DEF IInv

\* An owner the UI's liveness probe declared lost is dead
\* (refresh_platform_vpn_owner_liveness_locked).
THEOREM ProbeIsSound ==
  ASSUME ~DirSyncMayFail
  PROVE  Spec => []LostOwnerIsDead
<1>1. IInv => LostOwnerIsDead
  BY DEF IInv, LostIsGone, LostOwnerIsDead
<1> QED
  BY <1>1, Invariant, PTL

-----------------------------------------------------------------------------
(* Steps of the journal                                                    *)

\* An Extension about to name itself in the journal replaces no running owner: it
\* holds the lease that a running owner would hold.
LEMMA SwapMeetsNoOwner ==
  ASSUME IInv, NEW e \in ExtProc, BindSwap(e)
  PROVE  journal.phase = "Attached" => journal.extension \notin alive
<1> USE ProcAssumption DEF IInv
<1>1. e \in alive /\ pc[e] = "swap" /\ e \in Proc /\ e \notin UiProc
  BY DEF BindSwap
<1>2. holder["extension"] = e
  BY <1>1 DEF AcquirerHolds, Acquiring
<1>3. \A f \in ExtProc : bound[f] = NoAttempt
  BY <1>1, <1>2 DEF OwnerIsJournalled, BindIsForeign
<1> QED
  BY <1>3 DEF OwnerIsBound, JournalWellFormed, WellFormed

\* Recovery deletes no record of a running owner.
LEMMA RecoveryMeetsNoOwner ==
  ASSUME IInv, NEW u \in UiProc, RecoverDelete(u), CanDelete(journal, rrec[u])
  PROVE  journal.phase = "Attached" => journal.extension \notin alive
<1> SUFFICES ASSUME journal.phase = "Attached", journal.extension \in alive
             PROVE  FALSE
  OBVIOUS
<1> USE ProcAssumption DEF IInv
<1>1. rpc[u] = "delete"
  BY DEF RecoverDelete
<1>2. rrec[u].phase = "Attached" /\ rrec[u].extension \in alive
  BY <1>1 DEF CanDelete, RecoveryProof, JournalWellFormed, WellFormed
<1>3. rrec[u].attempt \in cleaned
  BY <1>1, <1>2 DEF RecoveryProof
<1> QED
  BY <1>3 DEF CanDelete, CleanedIsFinal

\* The Extension that deletes its record after its cleanup is the running owner.
LEMMA AckerIsOwner ==
  ASSUME IInv, NEW e \in ExtProc, AckDelete(e)
  PROVE  /\ e \in alive /\ pc[e] = "ack"
         /\ journal.phase = "Attached" /\ journal.extension = e
         /\ rec[e].attempt = journal.attempt
BY DEF IInv, AckDelete, CanDelete, AckIsOwn, OwnerIsJournalled

\* What a step may do to the journal: a start writes it where there was none, a stop
\* fences a pending record, a binding names its process where no owner runs, and a
\* deletion is the owner's own or finds no owner running.
LEMMA JournalSteps ==
  ASSUME IInv, Next
  PROVE  \/ journal' = journal
         \/ journal = Missing
         \/ journal.phase = "Pending" /\ journal' = Stopping(journal)
         \/ /\ journal.phase \in {"Pending", "Attached"}
            /\ \E e \in ExtProc : journal' = AttachedTo(journal, e)
            /\ journal.phase = "Attached" => journal.extension \notin alive
         \/ /\ journal' = Missing
            /\ journal.phase = "Attached" =>
                 \/ journal.extension \notin alive
                 \/ pc[journal.extension] = "ack"
<1> DEFINE Goal == \/ journal' = journal
                   \/ journal = Missing
                   \/ journal.phase = "Pending" /\ journal' = Stopping(journal)
                   \/ /\ journal.phase \in {"Pending", "Attached"}
                      /\ \E e \in ExtProc : journal' = AttachedTo(journal, e)
                      /\ journal.phase = "Attached" => journal.extension \notin alive
                   \/ /\ journal' = Missing
                      /\ journal.phase = "Attached" =>
                           \/ journal.extension \notin alive
                           \/ pc[journal.extension] = "ack"
<1>1. ASSUME NEW p \in Proc, ProcStep(p) PROVE Goal
  BY <1>1 DEF ProcStep, Launch, Die, Abandon, DropOnCleanup
<1>2. ASSUME NEW u \in UiProc, UiStep(u) PROVE Goal
  <2>1. CASE RecoverDelete(u)
    BY <2>1, RecoveryMeetsNoOwner DEF RecoverDelete
  <2>2. CASE BeginCreate(u) \/ ClaimFence(u)
    BY <2>2 DEF BeginCreate, ClaimFence, CanFence
  <2>3. CASE BeginAcquire(u) \/ BeginStamp(u) \/ ClaimRead(u) \/ ClaimMissed(u)
             \/ ClaimReread(u) \/ ConfirmStop(u) \/ RecoverRead(u) \/ RecoverObserve(u)
             \/ ProbeLock(u) \/ ProbeJudge(u)
    BY <2>3 DEF BeginAcquire, BeginStamp, ClaimRead, ClaimMissed, ClaimReread, ConfirmStop,
                RecoverRead, RecoverObserve, ProbeLock, ProbeJudge
  <2> QED
    BY <1>2, <2>1, <2>2, <2>3 DEF UiStep
<1>3. ASSUME NEW e \in ExtProc, ExtStep(e) PROVE Goal
  <2>1. CASE BindSwap(e)
    BY <2>1, SwapMeetsNoOwner DEF BindSwap, CanSwap, CanUpgrade, CanRebind
  <2>2. CASE AckDelete(e)
    BY <2>2, AckerIsOwner DEF AckDelete
  <2>3. CASE FailUnattached(e)
    BY <2>3 DEF FailUnattached
  <2>4. CASE BindRead(e) \/ BindCheckIssuer(e) \/ BindCheckPrev(e) \/ BindAcquire(e)
             \/ BindStamp(e) \/ BindKeep(e) \/ AckRead(e)
    BY <2>4 DEF BindRead, BindCheckIssuer, BindCheckPrev, BindAcquire, BindStamp, BindKeep,
                AckRead
  <2> QED
    BY <1>3, <2>1, <2>2, <2>3, <2>4 DEF ExtStep
<1> QED
  BY <1>1, <1>2, <1>3 DEF Next

\* The record of a running owner is changed by that owner's acknowledgement only:
\* recovery and rebinding never act on a proof of death that no longer holds.
THEOREM OwnershipIsHandedOver ==
  ASSUME ~DirSyncMayFail
  PROVE  Spec => OwnershipHandover
<1>1. ASSUME IInv, Next PROVE HandoverStep
  BY <1>1, JournalSteps DEF HandoverStep, Missing
<1>2. UNCHANGED vars => HandoverStep
  BY DEF vars, HandoverStep
<1> QED
  BY <1>1, <1>2, Invariant, PTL DEF Spec, OwnershipHandover

-----------------------------------------------------------------------------
(* The journal and its leases implement TunnelOwnership                    *)

\* The journal is missing at first, so nothing is owned.
LEMMA OwnershipInit == Init => Ownership!Init
BY DEF Init, Ownership!Init, Stage, Missing

\* The variables of TunnelOwnership under the refinement mapping.
LEMMA OwnershipVars ==
  UNCHANGED <<journal, cleaned, started, alive, issued>> => UNCHANGED Ownership!vars
BY DEF Ownership!vars, Stage

\* The stage of the tunnel is read off the phase of the journal.
LEMMA Stages ==
  /\ Stage["Missing"] = "free" /\ Stage["Pending"] = "offered"
  /\ Stage["Attached"] = "owned" /\ Stage["Stopping"] = "fenced"
BY DEF Stage

\* A process that starts or dies is an Extension the abstraction sees, or a UI process.
LEMMA ProcRefines ==
  ASSUME IInv, NEW p \in Proc, ProcStep(p)
  PROVE  [Ownership!Next]_Ownership!vars
<1>1. CASE Launch(p) /\ p \in ExtProc
  <2>1. Ownership!Start(p)
    BY <1>1 DEF Launch, Ownership!Start
  <2> QED
    BY <1>1, <2>1 DEF Ownership!Next
<1>2. CASE Die(p) /\ p \in ExtProc
  <2>1. Ownership!Crash(p)
    BY <1>2 DEF Die, Ownership!Crash
  <2> QED
    BY <1>2, <2>1 DEF Ownership!Next
<1>3. CASE (Launch(p) \/ Die(p)) /\ p \in UiProc
  <2>1. p \notin ExtProc
    BY <1>3, ProcAssumption
  <2>2. /\ started' \cap ExtProc = started \cap ExtProc
        /\ alive' \cap ExtProc = alive \cap ExtProc
    BY <1>3, <2>1 DEF Launch, Die
  <2>3. journal' = journal /\ cleaned' = cleaned /\ issued' = issued
    BY <1>3 DEF Launch, Die
  <2> QED
    BY <2>2, <2>3 DEF Ownership!vars
<1>4. CASE Abandon(p) \/ DropOnCleanup(p)
  BY <1>4, OwnershipVars DEF Abandon, DropOnCleanup
<1> QED
  BY <1>1, <1>2, <1>3, <1>4 DEF ProcStep

\* The UI's transactions reserve and offer an attempt, fence it or reclaim it.
LEMMA UiRefines ==
  ASSUME IInv, ~DirSyncMayFail, NEW u \in UiProc, UiStep(u)
  PROVE  [Ownership!Next]_Ownership!vars
<1>t. Torn = {FALSE}
  BY DEF Torn
<1>1. CASE BeginAcquire(u)
  <2>1. Ownership!Reserve
    BY <1>1 DEF BeginAcquire, Ownership!Reserve, Missing
  <2> QED
    BY <2>1 DEF Ownership!Next
<1>2. CASE BeginCreate(u)
  <2>1. rec[u] = PendingBy(issued, u) /\ issued \in Attempt \ cleaned /\ journal = Missing
    BY <1>2 DEF IInv, BeginReserved, BeginCreate
  <2>2. Ownership!Offer
    BY <1>2, <2>1, Stages, BoundAssumption DEF BeginCreate, Ownership!Offer, PendingBy, Missing
  <2> QED
    BY <2>2 DEF Ownership!Next
<1>3. CASE ClaimFence(u)
  <2>1. /\ journal' = Stopping(journal) /\ journal.phase = "Pending"
        /\ UNCHANGED <<cleaned, started, alive, issued>>
    BY <1>3 DEF ClaimFence, CanFence
  <2>2. journal'.phase = "Stopping" /\ journal'.attempt = journal.attempt
        /\ journal'.extension = journal.extension
    BY <2>1 DEF IInv, TypeOK, Journal, Stopping
  <2>3. Ownership!Fence
    BY <2>1, <2>2, Stages DEF Ownership!Fence
  <2> QED
    BY <2>3 DEF Ownership!Next
<1>4. CASE RecoverDelete(u)
  <2>1. CASE CanDelete(journal, rrec[u])
    <3>1. /\ journal' = Missing /\ cleaned' = cleaned \cup {journal.attempt}
          /\ UNCHANGED <<started, alive, issued>>
      BY <1>4, <1>t, <2>1 DEF RecoverDelete, CanDelete
    <3>2. journal.phase \in {"Pending", "Attached", "Stopping"}
      BY <2>1 DEF CanDelete, IInv, TypeOK, Journal
    <3>3. journal.phase = "Attached" => journal.extension \notin alive
      BY <1>4, <2>1, RecoveryMeetsNoOwner
    <3>4. Ownership!Reclaim
      BY <3>1, <3>2, <3>3, Stages DEF Ownership!Reclaim, Ownership!Retire, Missing
    <3> QED
      BY <3>4 DEF Ownership!Next
  <2>2. CASE ~CanDelete(journal, rrec[u])
    BY <1>4, <2>2, OwnershipVars DEF RecoverDelete
  <2> QED
    BY <2>1, <2>2
<1>5. CASE BeginStamp(u) \/ ClaimRead(u) \/ ClaimMissed(u) \/ ClaimReread(u)
           \/ ConfirmStop(u) \/ RecoverRead(u) \/ RecoverObserve(u)
           \/ ProbeLock(u) \/ ProbeJudge(u)
  BY <1>5, OwnershipVars DEF BeginStamp, ClaimRead, ClaimMissed, ClaimReread, ConfirmStop,
     RecoverRead, RecoverObserve, ProbeLock, ProbeJudge
<1> QED
  BY <1>1, <1>2, <1>3, <1>4, <1>5 DEF UiStep

\* The Extension's transactions take the tunnel, take it over, or give it back.
LEMMA ExtRefines ==
  ASSUME IInv, ~DirSyncMayFail, NEW e \in ExtProc, ExtStep(e)
  PROVE  [Ownership!Next]_Ownership!vars
<1>t. Torn = {FALSE}
  BY DEF Torn
<1>1. CASE BindSwap(e)
  <2>1. CASE CanSwap(journal, rec[e])
    <3>1. /\ journal' = AttachedTo(journal, e) /\ e \in alive
          /\ UNCHANGED <<cleaned, started, alive, issued>>
      BY <1>1, <2>1 DEF BindSwap
    <3>2. /\ journal'.phase = "Attached" /\ journal'.attempt = journal.attempt
          /\ journal'.extension = e
      BY <3>1 DEF IInv, TypeOK, Journal, AttachedTo
    <3>3. CASE journal.phase = "Pending"
      <4>1. Ownership!Take(e)
        BY <3>1, <3>2, <3>3, Stages DEF Ownership!Take
      <4> QED
        BY <4>1 DEF Ownership!Next
    <3>4. CASE journal.phase = "Attached"
      <4>1. journal.extension \notin alive
        BY <1>1, <3>4, SwapMeetsNoOwner
      <4>2. Ownership!TakeOver(e)
        BY <3>1, <3>2, <3>4, <4>1, Stages DEF Ownership!TakeOver
      <4> QED
        BY <4>2 DEF Ownership!Next
    <3> QED
      BY <2>1, <3>3, <3>4 DEF CanSwap, CanUpgrade, CanRebind
  <2>2. CASE ~CanSwap(journal, rec[e])
    BY <1>1, <2>2, OwnershipVars DEF BindSwap
  <2> QED
    BY <2>1, <2>2
<1>2. CASE AckDelete(e)
  <2>1. /\ journal' = Missing /\ cleaned' = cleaned \cup {journal.attempt}
        /\ UNCHANGED <<started, alive, issued>>
    BY <1>2, <1>t, AckerIsOwner DEF AckDelete
  <2>2. Ownership!Release
    BY <1>2, <2>1, AckerIsOwner, Stages DEF Ownership!Release, Ownership!Retire, Missing
  <2> QED
    BY <2>2 DEF Ownership!Next
<1>3. CASE FailUnattached(e)
  <2>1. /\ journal' = Missing /\ cleaned' = cleaned \cup {journal.attempt}
        /\ journal.phase = "Pending" /\ UNCHANGED <<started, alive, issued>>
    BY <1>3, <1>t DEF FailUnattached
  <2>2. Ownership!Reclaim
    BY <2>1, Stages DEF Ownership!Reclaim, Ownership!Retire, Missing
  <2> QED
    BY <2>2 DEF Ownership!Next
<1>4. CASE BindRead(e) \/ BindCheckIssuer(e) \/ BindCheckPrev(e) \/ BindAcquire(e)
           \/ BindStamp(e) \/ BindKeep(e) \/ AckRead(e)
  BY <1>4, OwnershipVars DEF BindRead, BindCheckIssuer, BindCheckPrev, BindAcquire,
     BindStamp, BindKeep, AckRead
<1> QED
  BY <1>1, <1>2, <1>3, <1>4 DEF ExtStep

\* The journal and its leases implement the ownership of the tunnel that
\* TunnelOwnership states, whatever the processes do between two critical sections.
THEOREM ImplementsOwnership ==
  ASSUME ~DirSyncMayFail
  PROVE  Spec => OwnershipSpec
<1>1. IInv /\ [Next]_vars => [Ownership!Next]_Ownership!vars
  BY ProcRefines, UiRefines, ExtRefines, OwnershipVars DEF Next, vars
<1> QED
  BY <1>1, Invariant, OwnershipInit, PTL DEF Spec, OwnershipSpec, Ownership!Spec

================================================================================
