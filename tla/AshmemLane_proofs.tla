-------------------------- MODULE AshmemLane_proofs --------------------------
(***************************************************************************)
(* The lane keeps its type, a reader takes whole and recent envelopes      *)
(* only, and the lane implements LaneRegister, for any number of           *)
(* envelopes, of acknowledgements and of crashes.                          *)
(*                                                                         *)
(* ReadIsWhole speaks of what a read has found; it is inductive together   *)
(* with what makes it true, that a header in place, and one the reader     *)
(* holds, names a revision that was sealed, and that a writer on its way   *)
(* has a revision to seal.  ReadIsRecent needs to know where generations   *)
(* are: the slots hold the two newest ones (TwoNewest), the newest is      *)
(* whole (NewestWhole), and the engine works on the slot of the older one. *)
(***************************************************************************)
EXTENDS AshmemLane, TLAPS

\* Writer steps at which rev names an envelope.
Holding == {"drawn", "copying", "zeroing", "copied", "sealing", "again"}

WriterHolds == \A w \in Writer : step[w] \in Holding => rev[w] \in Revision
HeadSealed  == \A s \in Slot : head[s].gen # 0 => head[s].rev \in sealed
HeldSealed  == rpc \in {"payload", "second"} => rhead.gen # 0 /\ rhead.rev \in sealed

Inv == TypeOK /\ WriterHolds /\ HeadSealed /\ HeldSealed /\ ReadIsWhole

\* The newest generation in place is a number.
LEMMA LatestIsNat == ASSUME TypeOK PROVE Latest \in Nat
  BY DEF TypeOK, Latest, Header, Slot

\* The invariant holds initially.
LEMMA InitInv == Init => Inv
<1> SUFFICES ASSUME Init PROVE Inv OBVIOUS
<1> USE LaneBounds DEF Init
<1>1. TypeOK
  <2>1. NoHeader \in Header /\ Torn \in Payload
    BY DEF NoHeader, Header, Torn, Payload
  <2>2. /\ head \in [Slot -> Header] /\ body \in [Slot -> Payload]
        /\ rhead \in Header /\ rbody \in Payload /\ best \in Header
    BY <2>1
  <2>3. /\ secret \subseteq Revision /\ count \in 0 .. MaxRevision /\ sealed \subseteq Revision
        /\ step \in [Writer -> {"idle", "attached", "drawn", "copying", "zeroing", "copied", "sealing", "again"}]
        /\ gen \in [Writer -> Nat] /\ next \in [Writer -> Nat \ {0}]
        /\ rev \in [Writer -> 0 .. MaxRevision]
    OBVIOUS
  <2>4. /\ stain \in [Slot -> BOOLEAN] /\ zero \in [Writer -> BOOLEAN]
        /\ kept \in BOOLEAN /\ again \in BOOLEAN /\ alone \in BOOLEAN
        /\ disturbed \in BOOLEAN /\ calm \in BOOLEAN
    BY Zenon
  <2>5. rslot \in Slot /\ rtry \in 1 .. Tries
    BY DEF Slot, Tries
  <2> QED BY <2>2, <2>3, <2>4, <2>5 DEF TypeOK
<1>2. WriterHolds /\ HeadSealed /\ HeldSealed /\ ReadIsWhole
  BY DEF WriterHolds, HeadSealed, HeldSealed, ReadIsWhole, NoHeader, Holding
<1> QED BY <1>1, <1>2 DEF Inv

\* Starting a frame keeps the invariant, whoever starts it.
LEMMA FrameInv ==
  ASSUME Inv, NEW w \in Writer, NEW r \in Revision, WriteFrame(w, r),
         secret' \subseteq Revision, count' \in 0 .. MaxRevision,
         kept' \in BOOLEAN, again' \in BOOLEAN, owed' \in 0 .. 2,
         UNCHANGED <<head, sealed, readVars, applied, faultVars>>
  PROVE  Inv'
<1> USE LaneBounds
<1>a. next[w] \in Nat \ {0} /\ SlotOf(next[w]) \in Slot
  BY DEF Inv, TypeOK, SlotOf, Slot
<1>1. TypeOK'
  <2>1. /\ body' \in [Slot -> Payload] /\ stain' \in [Slot -> BOOLEAN]
    <3>1. Torn \in Payload
      BY DEF Torn, Payload
    <3>2. body \in [Slot -> Payload] /\ stain \in [Slot -> BOOLEAN]
      BY DEF Inv, TypeOK
    <3>3. (stain[SlotOf(next[w])] \/ r \in secret') \in BOOLEAN
      BY Zenon
    <3> QED BY <1>a, <3>1, <3>2, <3>3, Zenon DEF WriteFrame
  <2>2. /\ gen' \in [Writer -> Nat] /\ next' \in [Writer -> Nat \ {0}]
        /\ rev' \in [Writer -> 0 .. MaxRevision]
        /\ step' \in [Writer -> {"idle", "attached", "drawn", "copying", "zeroing", "copied", "sealing", "again"}]
    BY <1>a DEF WriteFrame, Inv, TypeOK, Revision
  <2>3. NeedsZero(SlotOf(next[w]), r) \in BOOLEAN
    BY Zenon DEF NeedsZero
  <2>4. zero' \in [Writer -> BOOLEAN] /\ alone' \in BOOLEAN /\ calm' \in BOOLEAN
    BY <2>3, Zenon DEF WriteFrame, Inv, TypeOK
  <2> QED
    BY <2>1, <2>2, <2>4 DEF Inv, TypeOK, readVars, faultVars
<1>2. WriterHolds'
  BY DEF WriteFrame, Inv, TypeOK, WriterHolds
<1>3. HeadSealed' /\ HeldSealed' /\ ReadIsWhole'
  BY DEF Inv, HeadSealed, HeldSealed, ReadIsWhole, readVars
<1> QED
  BY <1>1, <1>2, <1>3 DEF Inv

\* Every step of the writers keeps the invariant.
LEMMA WriterInv ==
  ASSUME Inv,
         \/ \E sec \in BOOLEAN : Publish(sec)
         \/ \E w \in Writer : Write(w)
         \/ PublishAgain \/ AckAttach \/ AckDraw \/ AckPublish \/ Crash
  PROVE  Inv'
<1> USE LaneBounds
<1>t. TypeOK /\ WriterHolds /\ HeadSealed /\ HeldSealed /\ ReadIsWhole
  BY DEF Inv
<1>1. ASSUME NEW sec \in BOOLEAN, Publish(sec) PROVE Inv'
  <2>1. count + 1 \in Revision /\ "engine" \in Writer
    BY <1>1, <1>t DEF Publish, TypeOK, Revision, Writer
  <2>2. secret' \subseteq Revision /\ count' \in 0 .. MaxRevision
    BY <1>1, <1>t, <2>1 DEF Publish, TypeOK, Revision
  <2>3. kept' \in BOOLEAN /\ again' \in BOOLEAN
    BY <1>1, <1>t, Zenon DEF Publish, TypeOK, Scrubs
  <2>4. owed' \in 0 .. 2
    BY <1>1, <1>t DEF Publish, TypeOK, Paid
  <2> QED BY <1>1, <2>1, <2>2, <2>3, <2>4, FrameInv DEF Publish
<1>2. CASE PublishAgain
  <2>1. "engine" \in Writer /\ rev["engine"] \in Revision
    BY <1>2, <1>t DEF PublishAgain, WriterHolds, Writer, Holding
  <2>2. owed' \in 0 .. 2
    BY <1>2, <1>t DEF PublishAgain, TypeOK, Paid
  <2> QED BY <1>2, <1>t, <2>1, <2>2, FrameInv DEF PublishAgain, TypeOK
<1>3. CASE AckPublish
  <2>1. "ack" \in Writer /\ rev["ack"] \in Revision
    BY <1>3, <1>t DEF AckPublish, WriterHolds, Writer, Holding
  <2> QED BY <1>3, <1>t, <2>1, FrameInv DEF AckPublish, TypeOK, scrubVars
<1>4. ASSUME NEW w \in Writer, Copied(w) PROVE Inv'
  <2>1. SlotOf(gen[w]) \in Slot /\ rev[w] \in Payload
    BY <1>t DEF TypeOK, SlotOf, Slot, Payload
  <2>2. TypeOK'
    BY <1>4, <1>t, <2>1 DEF Copied, TypeOK, frameVars, scrubVars, readVars, faultVars
  <2>3. WriterHolds'
    BY <1>4, <1>t DEF Copied, TypeOK, WriterHolds, Holding
  <2> QED BY <1>4, <1>t, <2>2, <2>3
             DEF Copied, Inv, HeadSealed, HeldSealed, ReadIsWhole, frameVars, readVars
<1>5. ASSUME NEW w \in Writer, Zeroed(w) PROVE Inv'
  <2>1. SlotOf(gen[w]) \in Slot
    BY <1>t DEF TypeOK, SlotOf, Slot
  <2>2. TypeOK'
    BY <1>5, <1>t, <2>1 DEF Zeroed, TypeOK, frameVars, scrubVars, readVars, faultVars
  <2>3. WriterHolds'
    BY <1>5, <1>t DEF Zeroed, TypeOK, WriterHolds, Holding
  <2> QED BY <1>5, <1>t, <2>2, <2>3
             DEF Zeroed, Inv, HeadSealed, HeldSealed, ReadIsWhole, frameVars, readVars
<1>6. ASSUME NEW w \in Writer, BeginHeader(w) PROVE Inv'
  <2>1. SlotOf(gen[w]) \in Slot /\ NoHeader \in Header
    BY <1>t DEF TypeOK, SlotOf, Slot, NoHeader, Header
  <2>2. TypeOK'
    BY <1>6, <1>t, <2>1 DEF BeginHeader, TypeOK, frameVars, scrubVars, readVars, faultVars
  <2>3. WriterHolds'
    BY <1>6, <1>t DEF BeginHeader, TypeOK, WriterHolds, Holding
  <2>4. HeadSealed'
    BY <1>6, <1>t, <2>1 DEF BeginHeader, HeadSealed, TypeOK, NoHeader, frameVars
  <2> QED BY <1>6, <1>t, <2>2, <2>3, <2>4
             DEF BeginHeader, Inv, HeldSealed, ReadIsWhole, frameVars, readVars
<1>7. ASSUME NEW w \in Writer, Seal(w) PROVE Inv'
  <2> DEFINE frame == [gen |-> gen[w], rev |-> rev[w]]
  <2>1. SlotOf(gen[w]) \in Slot /\ frame \in Header /\ rev[w] \in Revision
    BY <1>7, <1>t DEF Seal, TypeOK, SlotOf, Slot, Header, WriterHolds, Holding
  <2>2. step' \in [Writer -> {"idle", "attached", "drawn", "copying", "zeroing", "copied", "sealing", "again"}]
    BY <1>7, <1>t DEF Seal, TypeOK
  <2>3. since' \in Nat
    BY <1>7, <1>t DEF Seal, TypeOK
  <2>4. head' \in [Slot -> Header] /\ sealed' \subseteq Revision
    BY <1>7, <1>t, <2>1 DEF Seal, TypeOK
  <2>5. TypeOK'
    BY <1>7, <1>t, <2>2, <2>3, <2>4 DEF Seal, TypeOK, scrubVars, readVars
  <2>6. WriterHolds'
    BY <1>7, <1>t, <2>1 DEF Seal, TypeOK, WriterHolds, Holding
  <2>7. HeadSealed'
    BY <1>7, <1>t, <2>1 DEF Seal, TypeOK, HeadSealed
  <2> QED BY <1>7, <1>t, <2>5, <2>6, <2>7 DEF Seal, Inv, HeldSealed, ReadIsWhole, readVars
<1>8. CASE AckAttach
  <2>1. Seed \in Nat \ {0}
    BY <1>t, LatestIsNat DEF Seed
  <2>2. /\ next' \in [Writer -> Nat \ {0}]
        /\ step' \in [Writer -> {"idle", "attached", "drawn", "copying", "zeroing", "copied", "sealing", "again"}]
        /\ acks' \in 0 .. MaxAck
    <3>1. next' \in [Writer -> Nat \ {0}]
      BY <1>8, <1>t, <2>1, Zenon DEF AckAttach, TypeOK
    <3>2. step' \in [Writer -> {"idle", "attached", "drawn", "copying", "zeroing", "copied", "sealing", "again"}]
      BY <1>8, <1>t DEF AckAttach, TypeOK
    <3>3. acks' \in 0 .. MaxAck
      BY <1>8, <1>t DEF AckAttach, TypeOK
    <3> QED BY <3>1, <3>2, <3>3
  <2>4. TypeOK'
    BY <1>8, <1>t, <2>2 DEF AckAttach, TypeOK, slotVars, frameVars, scrubVars, readVars
  <2>3. WriterHolds'
    BY <1>8, <1>t DEF AckAttach, TypeOK, WriterHolds, Holding
  <2> QED BY <1>8, <1>t, <2>4, <2>3
             DEF AckAttach, Inv, HeadSealed, HeldSealed, ReadIsWhole, slotVars, frameVars, readVars
<1>9. CASE AckDraw
  <2>1. count + 1 \in Revision
    BY <1>9, <1>t DEF AckDraw, TypeOK, Revision
  <2>2. TypeOK'
    BY <1>9, <1>t, <2>1 DEF AckDraw, TypeOK, Writer, slotVars, scrubVars, readVars, faultVars, Revision
  <2>3. WriterHolds'
    BY <1>9, <1>t, <2>1 DEF AckDraw, TypeOK, WriterHolds, Holding
  <2> QED BY <1>9, <1>t, <2>2, <2>3
             DEF AckDraw, Inv, HeadSealed, HeldSealed, ReadIsWhole, slotVars, readVars
<1>10. CASE Crash
  <2>1. Seed \in Nat \ {0}
    BY <1>t, LatestIsNat DEF Seed
  <2>2. /\ next' \in [Writer -> Nat \ {0}]
        /\ step' \in [Writer -> {"idle", "attached", "drawn", "copying", "zeroing", "copied", "sealing", "again"}]
        /\ crashes' \in 0 .. MaxCrash /\ disturbed' \in BOOLEAN
    <3>1. next' \in [Writer -> Nat \ {0}]
      BY <1>10, <1>t, <2>1, Zenon DEF Crash, TypeOK
    <3>2. step' \in [Writer -> {"idle", "attached", "drawn", "copying", "zeroing", "copied", "sealing", "again"}]
      BY <1>10, <1>t DEF Crash, TypeOK
    <3>3. crashes' \in 0 .. MaxCrash
      BY <1>10, <1>t DEF Crash, TypeOK
    <3>4. disturbed' \in BOOLEAN
      BY <1>10, <1>t, Zenon DEF Crash, TypeOK
    <3> QED BY <3>1, <3>2, <3>3, <3>4
  <2>4. TypeOK'
    BY <1>10, <1>t, <2>2 DEF Crash, TypeOK, slotVars, frameVars, readVars
  <2>3. WriterHolds'
    BY <1>10, <1>t DEF Crash, TypeOK, WriterHolds, Holding
  <2> QED BY <1>10, <1>t, <2>4, <2>3
             DEF Crash, Inv, HeadSealed, HeldSealed, ReadIsWhole, slotVars, frameVars, readVars
<1> QED
  BY <1>1, <1>2, <1>3, <1>4, <1>5, <1>6, <1>7, <1>8, <1>9, <1>10 DEF Write

\* Every step of the reader keeps the invariant.
LEMMA ReaderInv == ASSUME Inv, Read PROVE Inv'
<1> USE LaneBounds
<1>t. TypeOK /\ WriterHolds /\ HeadSealed /\ HeldSealed /\ ReadIsWhole
  BY DEF Inv
<1>w. ASSUME UNCHANGED <<slotVars, frameVars, writerVars>> PROVE WriterHolds' /\ HeadSealed'
  BY <1>t, <1>w DEF WriterHolds, HeadSealed, slotVars, frameVars, writerVars
<1>1. CASE StartRead
  <2>1. Latest \in Nat /\ Quiet \in BOOLEAN
    BY <1>t, LatestIsNat DEF Quiet
  <2>2. TypeOK'
    BY <1>1, <1>t, <2>1 DEF StartRead, TypeOK, slotVars, frameVars, writerVars, scrubVars,
       faultVars, NoHeader, Header, Slot, Tries
  <2> QED BY <1>1, <1>w, <2>2 DEF StartRead, Inv, HeldSealed, ReadIsWhole, NoHeader
<1>2. CASE ReadHeader
  <2>1. TypeOK'
    BY <1>2, <1>t DEF ReadHeader, Retry, NextSlot, TypeOK, slotVars, frameVars, writerVars,
       scrubVars, faultVars, Slot, Tries
  <2>2. HeldSealed'
    BY <1>2, <1>t DEF ReadHeader, Retry, NextSlot, TypeOK, HeadSealed, HeldSealed, frameVars
  <2> QED BY <1>2, <1>t, <1>w, <2>1, <2>2 DEF ReadHeader, Inv, ReadIsWhole, frameVars
<1>3. CASE ReadPayload
  <2>1. TypeOK'
    BY <1>3, <1>t DEF ReadPayload, TypeOK, slotVars, frameVars, writerVars, scrubVars, faultVars
  <2>2. HeldSealed'
    BY <1>3, <1>t DEF ReadPayload, HeldSealed, frameVars
  <2> QED BY <1>3, <1>t, <1>w, <2>1, <2>2 DEF ReadPayload, Inv, ReadIsWhole, frameVars
<1>4. CASE ReadAgain
  <2>1. rhead.rev \in sealed /\ sealed' = sealed
    BY <1>4, <1>t DEF ReadAgain, HeldSealed, frameVars
  <2>2. best' \in Header /\ (best'.gen # 0 => best'.rev \in sealed)
    BY <1>4, <1>t, <2>1 DEF ReadAgain, Whole, ReadIsWhole, TypeOK, Header, Payload
  <2>3. rpc' \in {"first", "apply"} /\ rslot' \in Slot /\ rtry' \in 1 .. Tries
    BY <1>4, <1>t DEF ReadAgain, Retry, NextSlot, TypeOK, Slot, Tries
  <2>4. TypeOK'
    BY <1>4, <1>t, <2>2, <2>3 DEF ReadAgain, TypeOK, slotVars, frameVars, writerVars, scrubVars,
       faultVars
  <2>5. HeldSealed' /\ ReadIsWhole'
    BY <2>1, <2>2, <2>3 DEF HeldSealed, ReadIsWhole
  <2> QED BY <1>4, <1>w, <2>4, <2>5 DEF ReadAgain, Inv
<1>5. CASE Apply
  <2>1. TypeOK'
    BY <1>5, <1>t DEF Apply, TypeOK, Header, slotVars, frameVars, writerVars, scrubVars, faultVars
  <2> QED BY <1>5, <1>t, <1>w, <2>1 DEF Apply, Inv, HeldSealed, ReadIsWhole, frameVars
<1> QED
  BY <1>1, <1>2, <1>3, <1>4, <1>5 DEF Read

\* The strengthened invariant of the lane.
THEOREM LaneInvariant == Spec => []Inv
<1>1. ASSUME Inv, [Next]_vars PROVE Inv'
  <2>1. CASE UNCHANGED vars
    BY <1>1, <2>1 DEF vars, slotVars, frameVars, writerVars, scrubVars, readVars, faultVars, Inv,
       TypeOK, WriterHolds, HeadSealed, HeldSealed, ReadIsWhole
  <2>2. CASE Next
    BY <1>1, <2>2, WriterInv, ReaderInv DEF Next
  <2> QED BY <1>1, <2>1, <2>2
<1> QED BY InitInv, <1>1, PTL DEF Spec

\* The state of the lane keeps its type.
THEOREM LaneTypeCorrect == Spec => []TypeOK
<1>1. Inv => TypeOK BY DEF Inv
<1> QED BY LaneInvariant, <1>1, PTL

\* A reader never takes a payload that was not published in full, with any
\* number of writers' publications, crashes and acknowledgements around it.
THEOREM ReadersTakeWholeFrames == Spec => []ReadIsWhole
<1>1. Inv => ReadIsWhole BY DEF Inv
<1> QED BY LaneInvariant, <1>1, PTL

\* The lane implements LaneRegister: sealing a frame publishes it, applying a
\* newer one learns it, and every other step is invisible.
THEOREM LaneImplementsRegister == Spec => RegisterSpec
<1> USE DEF Register!Init, Register!Publish, Register!Learn
<1>1. Init => Register!Init
  BY DEF Init
<1>2. ASSUME Inv, [Next]_vars
      PROVE  [Register!Publish \/ Register!Learn]_<<sealed, applied>>
  <2>1. ASSUME NEW w \in Writer, Seal(w) PROVE Register!Publish
    <3>1. sealed' = sealed \union {rev[w]} /\ UNCHANGED applied
      BY <2>1 DEF Seal
    <3>2. sealed \subseteq Nat /\ rev[w] \in Nat
      BY <1>2, LaneBounds DEF Inv, TypeOK, Revision
    <3> QED BY <3>1, <3>2
  <2>2. CASE Apply
    BY <1>2, <2>2 DEF Apply, Advances, Inv, ReadIsWhole, TypeOK, Header, frameVars
  <2>3. CASE UNCHANGED vars
    BY <2>3 DEF vars, frameVars
  <2>4. CASE \E sec \in BOOLEAN : Publish(sec)
    BY <2>4 DEF Publish
  <2>5. ASSUME NEW w \in Writer, Copied(w) \/ Zeroed(w) \/ BeginHeader(w)
        PROVE  UNCHANGED <<sealed, applied>>
    BY <2>5 DEF Copied, Zeroed, BeginHeader, frameVars
  <2>6. CASE PublishAgain \/ AckAttach \/ AckDraw \/ AckPublish \/ Crash
    BY <2>6 DEF PublishAgain, AckAttach, AckDraw, AckPublish, Crash, frameVars
  <2>7. CASE StartRead \/ ReadHeader \/ ReadPayload \/ ReadAgain
    BY <2>7 DEF StartRead, ReadHeader, ReadPayload, ReadAgain, frameVars
  <2> QED BY <1>2, <2>1, <2>2, <2>3, <2>4, <2>5, <2>6, <2>7 DEF Next, Write, Read
<1> QED BY LaneInvariant, <1>1, <1>2, PTL DEF Spec, RegisterSpec, Register!Spec

-----------------------------------------------------------------------------
(* Recency.  While no acknowledgement has attached, the headers in place   *)
(* are those of the newest generation and the one before, the engine works *)
(* on the other slot than the newest, and the newest frame is whole.       *)

Writing   == step["engine"] \in {"copying", "zeroing", "copied", "sealing"}
Cur       == SlotOf(gen["engine"])

InNewest(s)  == Latest # 0 /\ head[s].gen = Latest
OneWriter  ==
  /\ step["ack"] = "idle" /\ step["engine"] \notin {"attached", "drawn"}
  /\ Writing => gen["engine"] = Latest + 1 /\ next["engine"] = Latest + 2
  /\ ~Writing => next["engine"] = Latest + 1
TwoNewest  == \A s \in Slot : head[s].gen # 0 => SlotOf(head[s].gen) = s /\ head[s].gen + 1 >= Latest
NewestWhole ==
  /\ \A s \in Slot : InNewest(s) => body[s] = head[s].rev
  /\ step["engine"] \in {"zeroing", "copied", "sealing"} => body[Cur] = rev["engine"]
Lane == OneWriter /\ TwoNewest /\ NewestWhole

\* What a read under way has found, and what it holds, is recent.
ReadRecent ==
  rpc # "idle" =>
    /\ floor <= Latest
    /\ (rpc \in {"payload", "second"} => rhead.gen + 1 >= floor)
    /\ (best.gen # 0 => best.gen + 1 >= floor)

\* What a read that no writer met has found: the newest frame, once past its slot.
Passed == rpc = "apply" \/ (rslot = 1 /\ SlotOf(Latest) = 0)

ReadCalm ==
  calm =>
    /\ Quiet
    /\ rpc # "idle" =>
         /\ floor = Latest /\ best.gen <= Latest
         /\ (rpc \in {"payload", "second"} => rhead = head[rslot])
         /\ (rpc = "second" => rbody = body[rslot])
         /\ (Latest # 0 /\ Passed => best.gen = Latest)

RecentInv == acks = 0 => Lane /\ ReadRecent /\ ReadCalm

\* The engine takes its two slots in turn.
LEMMA SlotsAlternate == \A g \in Nat : SlotOf(g) \in Slot /\ SlotOf(g + 1) # SlotOf(g)
  BY DEF SlotOf, Slot

\* The newest generation is that of a header, and no header is newer.
LEMMA LatestIsMax ==
  ASSUME TypeOK
  PROVE  /\ Latest \in Nat
         /\ \A s \in Slot : head[s].gen \in Nat /\ head[s].gen <= Latest
         /\ Latest = head[0].gen \/ Latest = head[1].gen
  BY DEF TypeOK, Latest, Header, Slot

\* The newest frame is in the slot of its generation, and only there.
LEMMA NewestSlot ==
  ASSUME TypeOK, TwoNewest, Latest # 0
  PROVE  /\ \A s \in Slot : InNewest(s) <=> s = SlotOf(Latest)
         /\ SlotOf(Latest) \in Slot /\ SlotOf(Latest + 1) \in Slot
         /\ SlotOf(Latest + 1) # SlotOf(Latest)
<1>1. Latest \in Nat /\ SlotOf(Latest) \in Slot /\ SlotOf(Latest + 1) \in Slot
      /\ SlotOf(Latest + 1) # SlotOf(Latest)
  BY LatestIsMax, SlotsAlternate
<1>2. \A s \in Slot : head[s].gen = Latest => s = SlotOf(Latest)
  BY DEF TwoNewest
<1>3. \E s \in Slot : head[s].gen = Latest
  BY LatestIsMax DEF Slot
<1> QED BY <1>1, <1>2, <1>3 DEF InNewest

\* The newest generation depends on the headers alone.
LEMMA SameHeaders ==
  ASSUME UNCHANGED head
  PROVE  Latest' = Latest /\ TwoNewest' = TwoNewest /\ \A s \in Slot : InNewest(s)' = InNewest(s)
  BY DEF Latest, TwoNewest, InNewest

\* The engine starts a frame in the slot that does not hold the newest one.
LEMMA FrameLane ==
  ASSUME TypeOK, Lane, NEW r \in Revision, WriteFrame("engine", r),
         step["engine"] \in {"idle", "again"}, UNCHANGED head
  PROVE  Lane' /\ Latest' = Latest
<1> USE DEF Writer
<1>1. /\ gen'["engine"] = Latest + 1 /\ next'["engine"] = Latest + 2
      /\ step'["engine"] = "copying" /\ step'["ack"] = "idle"
      /\ body' = [body EXCEPT ![SlotOf(Latest + 1)] = Torn]
  <2>1. /\ gen' = [gen EXCEPT !["engine"] = next["engine"]]
        /\ next' = [next EXCEPT !["engine"] = @ + 1]
        /\ step' = [step EXCEPT !["engine"] = "copying"]
        /\ body' = [body EXCEPT ![SlotOf(next["engine"])] = Torn]
    BY DEF WriteFrame
  <2>2. next["engine"] = Latest + 1 /\ step["ack"] = "idle" /\ Latest \in Nat
    BY LatestIsMax DEF Lane, OneWriter, Writing
  <2> QED BY <2>1, <2>2 DEF TypeOK
<1>2. OneWriter' /\ TwoNewest'
  BY <1>1, SameHeaders DEF Lane, OneWriter, Writing
<1>3. NewestWhole'
  <2>1. ASSUME NEW s \in Slot, InNewest(s) PROVE body'[s] = head[s].rev
    <3>1. s # SlotOf(Latest + 1)
      BY <2>1, NewestSlot DEF Lane, InNewest
    <3>2. body'[s] = body[s]
      BY <1>1, <3>1 DEF TypeOK
    <3> QED BY <2>1, <3>2 DEF Lane, NewestWhole
  <2> QED BY <1>1, <2>1, SameHeaders DEF NewestWhole
<1> QED BY <1>2, <1>3, SameHeaders DEF Lane

\* The steps of the engine's frame: the headers change when it is sealed, and
\* the newest generation is then the next one.
LEMMA EngineLane ==
  ASSUME TypeOK, Lane, Write("engine")
  PROVE  Lane' /\ (Latest' = Latest \/ Latest' = Latest + 1)
<1> USE DEF Writer
<1>t. /\ gen["engine"] = Latest + 1 /\ next["engine"] = Latest + 2 /\ Latest \in Nat /\ Writing
      /\ step["ack"] = "idle" /\ Cur = SlotOf(Latest + 1) /\ Cur \in Slot
      /\ \A s \in Slot : InNewest(s) => s # Cur /\ body[s] = head[s].rev
      /\ TwoNewest /\ NewestWhole
  <2>1. Writing
    BY DEF Write, Copied, Zeroed, BeginHeader, Seal, Writing
  <2>2. gen["engine"] = Latest + 1 /\ next["engine"] = Latest + 2 /\ step["ack"] = "idle" /\ Latest \in Nat
    BY <2>1, LatestIsMax DEF Lane, OneWriter
  <2>3. Cur = SlotOf(Latest + 1) /\ Cur \in Slot
    BY <2>2, SlotsAlternate DEF Cur
  <2>4. \A s \in Slot : InNewest(s) => s # Cur /\ body[s] = head[s].rev
    BY <2>3, NewestSlot DEF InNewest, Lane, NewestWhole
  <2> QED BY <2>1, <2>2, <2>3, <2>4 DEF Lane
<1>1. CASE Copied("engine")
  <2>1. /\ step' = [step EXCEPT !["engine"] = IF zero["engine"] THEN "zeroing" ELSE "copied"]
        /\ body' = [body EXCEPT ![Cur] = rev["engine"]]
        /\ UNCHANGED <<head, gen, rev, next>>
    BY <1>1 DEF Copied, Cur, frameVars
  <2>2. step'["engine"] \in {"zeroing", "copied"} /\ step'["ack"] = step["ack"] /\ Cur' = Cur
    BY <2>1 DEF TypeOK, Cur, SlotOf
  <2>3. OneWriter' /\ TwoNewest' /\ Latest' = Latest
    BY <1>t, <2>1, <2>2, SameHeaders DEF OneWriter, Writing
  <2>4. NewestWhole'
    <3>1. body'[Cur] = rev["engine"] /\ \A s \in Slot : s # Cur => body'[s] = body[s]
      BY <1>t, <2>1 DEF TypeOK
    <3> QED BY <1>t, <2>1, <2>2, <3>1, SameHeaders DEF NewestWhole
  <2> QED BY <2>3, <2>4 DEF Lane
<1>2. CASE Zeroed("engine")
  <2>1. step' = [step EXCEPT !["engine"] = "copied"] /\ UNCHANGED <<head, body, gen, rev, next>>
    BY <1>2 DEF Zeroed, frameVars
  <2>2. step["engine"] = "zeroing" /\ step'["engine"] = "copied" /\ step'["ack"] = step["ack"] /\ Cur' = Cur
    BY <1>2, <2>1 DEF Zeroed, TypeOK, Cur, SlotOf
  <2>3. OneWriter' /\ TwoNewest' /\ Latest' = Latest
    BY <1>t, <2>1, <2>2, SameHeaders DEF OneWriter, Writing
  <2>4. NewestWhole'
    BY <1>t, <2>1, <2>2, SameHeaders DEF NewestWhole
  <2> QED BY <2>3, <2>4 DEF Lane
<1>3. CASE BeginHeader("engine")
  <2>1. /\ step' = [step EXCEPT !["engine"] = "sealing"] /\ UNCHANGED <<body, gen, rev, next>>
        /\ head' = [head EXCEPT ![Cur] = NoHeader] /\ step["engine"] = "copied"
    BY <1>3 DEF BeginHeader, Cur, frameVars
  <2>2. step'["engine"] = "sealing" /\ step'["ack"] = step["ack"] /\ Cur' = Cur
    BY <2>1 DEF TypeOK, Cur, SlotOf
  <2>3. head'[Cur].gen = 0 /\ \A s \in Slot : s # Cur => head'[s] = head[s]
    BY <1>t, <2>1 DEF TypeOK, NoHeader
  <2>4. Latest' = Latest
    <3>1. head[Cur].gen = Latest => Latest = 0
      BY <1>t DEF InNewest
    <3> QED BY <1>t, <2>3, <3>1, LatestIsMax DEF Latest, Slot
  <2>5. OneWriter' /\ TwoNewest'
    BY <1>t, <2>1, <2>2, <2>3, <2>4 DEF OneWriter, Writing, TwoNewest
  <2>6. NewestWhole'
    BY <1>t, <2>1, <2>2, <2>3, <2>4 DEF NewestWhole, InNewest
  <2> QED BY <2>4, <2>5, <2>6 DEF Lane
<1>4. CASE Seal("engine")
  <2>1. /\ step' = [step EXCEPT !["engine"] = step'["engine"]] /\ step'["engine"] \in {"idle", "again"}
        /\ head' = [head EXCEPT ![Cur] = [gen |-> Latest + 1, rev |-> rev["engine"]]]
        /\ UNCHANGED <<body, gen, rev, next>> /\ step["engine"] = "sealing"
    BY <1>4, <1>t DEF Seal, Cur, TypeOK
  <2>2. step'["ack"] = step["ack"] /\ Cur' = Cur
    BY <2>1 DEF TypeOK, Cur, SlotOf
  <2>3. /\ head'[Cur].gen = Latest + 1 /\ head'[Cur].rev = rev["engine"]
        /\ \A s \in Slot : s # Cur => head'[s] = head[s]
    BY <1>t, <2>1 DEF TypeOK
  <2>4. Latest' = Latest + 1
    BY <1>t, <2>3, LatestIsMax DEF Latest, Slot
  <2>5. OneWriter'
    BY <1>t, <2>1, <2>2, <2>4 DEF OneWriter, Writing
  <2>6. TwoNewest'
    <3> SUFFICES ASSUME NEW s \in Slot, head'[s].gen # 0
                 PROVE  SlotOf(head'[s].gen) = s /\ head'[s].gen + 1 >= Latest'
      BY DEF TwoNewest
    <3>1. CASE s = Cur
      BY <1>t, <2>3, <2>4, <3>1
    <3>2. CASE s # Cur
      <4>1. SlotOf(head[s].gen) = s /\ head[s].gen # 0 /\ head'[s] = head[s]
        BY <1>t, <2>3, <3>2 DEF TwoNewest
      <4>2. Latest # 0
        BY <4>1, LatestIsMax
      <4>3. s = SlotOf(Latest) /\ InNewest(SlotOf(Latest))
        BY <1>t, <3>2, <4>2, NewestSlot DEF Slot
      <4> QED BY <1>t, <2>4, <4>1, <4>3 DEF InNewest
    <3> QED BY <3>1, <3>2
  <2>7. NewestWhole'
    <3>1. \A s \in Slot : s # Cur => head'[s].gen # Latest + 1
      BY <1>t, <2>3, LatestIsMax
    <3>2. body[Cur] = rev["engine"]
      BY <1>t, <2>1 DEF NewestWhole
    <3> QED BY <1>t, <2>1, <2>3, <2>4, <3>1, <3>2 DEF NewestWhole, InNewest
  <2> QED BY <2>4, <2>5, <2>6, <2>7 DEF Lane
<1> QED BY <1>1, <1>2, <1>3, <1>4 DEF Write

\* The successor of a crashed Extension goes on after the newest header, in the
\* slot the crashed one was at work on.
LEMMA CrashLane == ASSUME TypeOK, Lane, Crash PROVE Lane' /\ Latest' = Latest
<1> USE DEF Writer
<1>1. /\ step'["engine"] = "idle" /\ step'["ack"] = "idle" /\ next'["engine"] = Latest + 1
      /\ UNCHANGED <<head, body, rev>>
  BY DEF Crash, TypeOK, Seed, slotVars
<1>2. OneWriter' /\ TwoNewest' /\ Latest' = Latest
  BY <1>1, SameHeaders DEF Lane, OneWriter, Writing
<1>3. NewestWhole'
  BY <1>1, SameHeaders DEF Lane, NewestWhole
<1> QED BY <1>2, <1>3 DEF Lane

\* What a read holds stays recent when the newest generation advances, and a
\* step that moves a writer is met by no calm read.
LEMMA ReadStays ==
  ASSUME TypeOK, ReadRecent, Latest' = Latest \/ Latest' = Latest + 1, UNCHANGED readVars
  PROVE  ReadRecent'
<1>1. Latest \in Nat /\ floor \in Nat
  BY LatestIsMax DEF TypeOK
<1> QED BY <1>1 DEF ReadRecent, readVars

\* Every step of the writers keeps the recency invariant.
LEMMA WriterRecent ==
  ASSUME Inv, RecentInv, acks' = 0,
         \/ \E sec \in BOOLEAN : Publish(sec)
         \/ \E w \in Writer : Write(w)
         \/ PublishAgain \/ AckAttach \/ AckDraw \/ AckPublish \/ Crash
  PROVE  Lane' /\ ReadRecent' /\ ReadCalm'
<1> USE DEF Writer
<1>t. TypeOK /\ WriterHolds
  BY DEF Inv
<1>0. acks = 0 /\ ~AckAttach
  <2>1. acks \in Nat
    BY <1>t, LaneBounds DEF TypeOK
  <2>2. ~AckAttach
    BY <2>1 DEF AckAttach
  <2>3. acks' = acks
    BY <2>2 DEF Publish, PublishAgain, AckDraw, AckPublish, Crash, Write, Copied, Zeroed, BeginHeader,
       Seal, faultVars
  <2> QED BY <2>2, <2>3
<1>i. Lane /\ ReadRecent /\ ReadCalm
  BY <1>0 DEF RecentInv
<1>a. step["ack"] = "idle" /\ step["engine"] \notin {"attached", "drawn"}
  BY <1>i DEF Lane, OneWriter
<1>1. ASSUME NEW r \in Revision, WriteFrame("engine", r), step["engine"] \in {"idle", "again"},
             UNCHANGED <<head, readVars>>
      PROVE  Lane' /\ ReadRecent' /\ ReadCalm'
  <2>1. Lane' /\ Latest' = Latest
    BY <1>t, <1>i, <1>1, FrameLane
  <2>2. ReadRecent'
    BY <1>t, <1>i, <1>1, <2>1, ReadStays
  <2>3. ~calm'
    BY <1>1 DEF WriteFrame
  <2> QED BY <2>1, <2>2, <2>3 DEF ReadCalm
<1>2. ASSUME NEW sec \in BOOLEAN, Publish(sec) PROVE Lane' /\ ReadRecent' /\ ReadCalm'
  <2>1. count + 1 \in Revision
    BY <1>2, <1>t, LaneBounds DEF Publish, TypeOK, Revision
  <2> QED BY <1>1, <1>2, <2>1 DEF Publish
<1>3. CASE PublishAgain
  <2>1. rev["engine"] \in Revision
    BY <1>3, <1>t DEF PublishAgain, WriterHolds, Holding
  <2> QED BY <1>1, <1>3, <2>1 DEF PublishAgain
<1>4. CASE Write("engine")
  <2>1. Lane' /\ (Latest' = Latest \/ Latest' = Latest + 1)
    BY <1>t, <1>i, <1>4, EngineLane
  <2>2. UNCHANGED <<readVars, calm>> /\ ~Quiet
    BY <1>4 DEF Write, Copied, Zeroed, BeginHeader, Seal, Quiet
  <2>3. ReadRecent'
    BY <1>t, <1>i, <2>1, <2>2, ReadStays
  <2>4. ~calm'
    BY <1>i, <2>2 DEF ReadCalm
  <2> QED BY <2>1, <2>3, <2>4 DEF ReadCalm
<1>5. CASE Crash
  <2>1. Lane' /\ Latest' = Latest
    BY <1>t, <1>i, <1>5, CrashLane
  <2>2. UNCHANGED <<readVars, calm, head, body>> /\ Quiet'
    BY <1>5 DEF Crash, slotVars, Quiet
  <2>3. ReadRecent'
    BY <1>t, <1>i, <2>1, <2>2, ReadStays
  <2>4. ReadCalm'
    BY <1>i, <2>1, <2>2 DEF ReadCalm, Passed, readVars
  <2> QED BY <2>1, <2>3, <2>4
<1>6. ~AckDraw /\ ~AckPublish /\ ~Write("ack")
  BY <1>a DEF AckDraw, AckPublish, Write, Copied, Zeroed, BeginHeader, Seal
<1> QED BY <1>0, <1>2, <1>3, <1>4, <1>5, <1>6

\* Every step of the reader keeps it.
LEMMA ReaderRecent ==
  ASSUME Inv, RecentInv, acks' = 0, Read
  PROVE  Lane' /\ ReadRecent' /\ ReadCalm'
<1> USE DEF Writer
<1>t. TypeOK /\ HeldSealed
  BY DEF Inv
<1>0. UNCHANGED <<slotVars, writerVars, faultVars, frameVars>>
  BY DEF Read, StartRead, ReadHeader, ReadPayload, ReadAgain, Apply
<1>i. Lane /\ ReadRecent /\ ReadCalm
  BY <1>0 DEF RecentInv, faultVars
<1>1. Latest' = Latest /\ Quiet' = Quiet /\ Lane' /\ Latest \in Nat
  BY <1>0, <1>i, <1>t, SameHeaders, LatestIsMax
     DEF slotVars, writerVars, Quiet, Lane, OneWriter, Writing, NewestWhole, Cur
<1>2. CASE StartRead
  <2>1. /\ rpc' = "first" /\ rslot' = 0 /\ best'.gen = 0 /\ floor' = Latest /\ calm' = Quiet
    BY <1>2 DEF StartRead, NoHeader
  <2>2. ReadRecent'
    BY <1>1, <2>1 DEF ReadRecent
  <2>3. ReadCalm'
    <3>1. calm' => Quiet'
      BY <1>1, <2>1, Zenon
    <3>2. best'.gen <= Latest' /\ floor' = Latest' /\ ~Passed' /\ rpc' \notin {"payload", "second"}
      BY <1>1, <2>1 DEF Passed
    <3> QED BY <3>1, <3>2 DEF ReadCalm
  <2> QED BY <1>1, <2>2, <2>3
\* A read under way: where it is, and what the slots hold.
<1>r. rpc # "idle" => /\ floor \in Nat /\ best.gen \in Nat /\ rhead.gen \in Nat
                      /\ rslot \in Slot /\ head[rslot].gen \in Nat /\ head[rslot].gen <= Latest
                      /\ head[rslot].gen # 0 => head[rslot].gen + 1 >= Latest
  BY <1>t, <1>i, LatestIsMax DEF TypeOK, Header, Lane, TwoNewest
<1>n. Latest # 0 => \A s \in Slot : /\ head[s].gen = Latest <=> s = SlotOf(Latest)
                                    /\ s = SlotOf(Latest) => body[s] = head[s].rev
  BY <1>t, <1>i, NewestSlot DEF Lane, NewestWhole, InNewest
\* The slot that holds the newest frame is not left without it.
<1>s. ASSUME rpc' \in {"first", "apply"}, Retry, floor' = floor, best' = best, calm' = calm,
             rpc # "idle", Latest # 0 /\ calm => rslot # SlotOf(Latest)
      PROVE  ReadRecent' /\ ReadCalm'
  <2>1. ReadRecent'
    BY <1>1, <1>i, <1>s DEF ReadRecent
  <2>2. Latest # 0 /\ calm /\ Passed' => Passed
    <3>1. SlotOf(Latest) \in Slot
      BY <1>1, SlotsAlternate
    <3> QED BY <1>s, <1>1, <1>r, <3>1 DEF Passed, Retry, NextSlot, Slot
  <2>3. ReadCalm'
    BY <1>1, <1>i, <1>s, <2>2 DEF ReadCalm
  <2> QED BY <2>1, <2>3
<1>3. CASE ReadHeader
  <2>1. UNCHANGED <<calm, rbody, best, floor>> /\ rpc = "first"
    BY <1>3 DEF ReadHeader
  <2>2. CASE head[rslot].gen = 0
    <3>1. Retry /\ rpc' \in {"first", "apply"}
      BY <1>3, <2>2 DEF ReadHeader, Retry, NextSlot
    <3>2. Latest # 0 => rslot # SlotOf(Latest)
      BY <1>r, <1>n, <2>1, <2>2
    <3> QED BY <1>1, <1>s, <2>1, <3>1, <3>2
  <2>3. CASE head[rslot].gen # 0
    <3>1. rhead' = head[rslot] /\ rpc' = "payload" /\ UNCHANGED <<rslot, rtry>>
      BY <1>3, <2>3 DEF ReadHeader
    <3>2. ReadRecent'
      BY <1>1, <1>i, <1>r, <2>1, <2>3, <3>1 DEF ReadRecent
    <3>3. ReadCalm'
      BY <1>0, <1>1, <1>i, <2>1, <3>1 DEF ReadCalm, Passed, slotVars
    <3> QED BY <1>1, <3>2, <3>3
  <2> QED BY <2>2, <2>3
<1>4. CASE ReadPayload
  <2>1. /\ rpc = "payload" /\ rpc' = "second" /\ rbody' = body[rslot]
        /\ UNCHANGED <<calm, rslot, rtry, rhead, best, floor>>
    BY <1>4 DEF ReadPayload
  <2>2. ReadRecent' /\ ReadCalm'
    BY <1>0, <1>1, <1>i, <2>1 DEF ReadRecent, ReadCalm, Passed, slotVars
  <2> QED BY <1>1, <2>2
<1>5. CASE ReadAgain
  <2>1. UNCHANGED <<calm, rhead, rbody, floor>> /\ rpc = "second" /\ rpc' \in {"first", "apply"}
    BY <1>5 DEF ReadAgain, Retry, NextSlot
  <2>2. rhead.gen # 0 /\ rhead.gen + 1 >= floor /\ (best.gen # 0 => best.gen + 1 >= floor)
    BY <1>t, <1>i, <2>1 DEF HeldSealed, ReadRecent
  <2>3. CASE Whole
    <3>1. /\ best'.gen = (IF rhead.gen > best.gen THEN rhead.gen ELSE best.gen) /\ NextSlot
      BY <1>5, <2>3 DEF ReadAgain, Newer
    <3>2. ReadRecent'
      BY <1>1, <1>i, <2>1, <2>2, <3>1 DEF ReadRecent
    <3>3. ReadCalm'
      <4> SUFFICES ASSUME calm PROVE ReadCalm'
        BY <2>1 DEF ReadCalm
      <4>1. /\ Quiet /\ floor = Latest /\ best.gen <= Latest /\ rhead = head[rslot]
            /\ (Latest # 0 /\ Passed => best.gen = Latest)
        BY <1>i, <2>1 DEF ReadCalm
      <4>2. best'.gen <= Latest /\ best'.gen \in Nat
        BY <1>1, <1>r, <2>1, <3>1, <4>1
      <4>3. ASSUME Latest # 0, Passed' PROVE best'.gen = Latest
        <5>1. CASE rslot = SlotOf(Latest)
          BY <1>1, <1>n, <1>r, <2>1, <3>1, <4>1, <4>3, <5>1
        <5>2. CASE rslot # SlotOf(Latest)
          <6>1. SlotOf(Latest) \in Slot
            BY <1>1, SlotsAlternate
          <6>2. Passed
            BY <1>1, <1>r, <2>1, <3>1, <4>3, <5>2, <6>1 DEF Passed, NextSlot, Slot
          <6> QED BY <1>1, <1>r, <2>1, <3>1, <4>1, <4>3, <6>2
        <5> QED BY <5>1, <5>2
      <4> QED BY <1>1, <2>1, <4>1, <4>2, <4>3 DEF ReadCalm
    <3> QED BY <1>1, <3>2, <3>3
  <2>4. CASE ~Whole
    <3>1. Retry /\ best' = best
      BY <1>5, <2>4 DEF ReadAgain
    <3>2. ASSUME Latest # 0, calm PROVE rslot # SlotOf(Latest)
      BY <1>i, <1>n, <1>r, <2>1, <2>4, <3>2 DEF ReadCalm, Whole
    <3> QED BY <1>1, <1>s, <2>1, <3>1, <3>2
  <2> QED BY <2>3, <2>4
<1>6. CASE Apply
  <2>1. rpc' = "idle" /\ calm' = calm
    BY <1>6 DEF Apply
  <2> QED BY <1>1, <1>i, <2>1 DEF ReadRecent, ReadCalm
<1> QED BY <1>2, <1>3, <1>4, <1>5, <1>6 DEF Read

\* The strengthened invariant of a lane with one writer.
THEOREM RecentInvariant == Spec => []RecentInv
<1>1. Init => RecentInv
  BY DEF Init, RecentInv, Lane, OneWriter, Writing, TwoNewest, NewestWhole, InNewest, ReadRecent,
     ReadCalm, Latest, NoHeader, Slot, Writer
<1>2. Inv /\ RecentInv /\ [Next]_vars => RecentInv'
  <2> SUFFICES ASSUME Inv, RecentInv, [Next]_vars, acks' = 0 PROVE Lane' /\ ReadRecent' /\ ReadCalm'
    BY DEF RecentInv
  <2>1. CASE UNCHANGED vars
    BY <2>1 DEF vars, slotVars, writerVars, readVars, faultVars, RecentInv, Lane, OneWriter, Writing,
       TwoNewest, NewestWhole, InNewest, ReadRecent, ReadCalm, Passed, Latest, Quiet, Cur
  <2>2. CASE Read
    BY <2>2, ReaderRecent
  <2>3. CASE Next /\ ~Read
    BY <2>3, WriterRecent DEF Next
  <2> QED BY <2>1, <2>2, <2>3
<1> QED BY LaneInvariant, <1>1, <1>2, PTL DEF Spec

\* While the engine is the only writer, with any number of publications and of
\* crashes: a read that finds anything finds a frame at most one generation older
\* than the newest in place when it began, and a read that no writer met finds
\* the newest frame itself.
THEOREM ReadersTakeRecentFrames == Spec => []ReadIsRecent
<1>1. Inv /\ RecentInv => ReadIsRecent
  <2> SUFFICES ASSUME Inv, RecentInv, rpc = "apply", acks = 0
               PROVE  (best.gen # 0 => best.gen + 1 >= floor) /\ (calm => best.gen = floor)
    BY DEF ReadIsRecent
  <2>1. ReadRecent /\ ReadCalm /\ best.gen \in Nat /\ Latest \in Nat
    BY LatestIsMax DEF RecentInv, Inv, TypeOK, Header
  <2> QED BY <2>1 DEF ReadRecent, ReadCalm, Passed
<1> QED BY LaneInvariant, RecentInvariant, <1>1, PTL

-----------------------------------------------------------------------------
(* Scrubbing.  While neither an acknowledgement nor a crash in mid-frame   *)
(* has happened the engine alternates between the slots (Lane), a stained  *)
(* slot has a header that tells how much to zero, and the debt of          *)
(* publications tells which slots may be stained: both, or the one that    *)
(* the engine writes next.                                                 *)

BeingZeroed == zero["engine"] /\ step["engine"] \in {"copying", "zeroing"}
StainOwed(s) ==
  IF Writing /\ s = Cur THEN kept \/ BeingZeroed
                        ELSE /\ head[s].gen # 0 /\ head[s].rev \in secret
                             /\ owed = 2 \/ (owed = 1 /\ (Writing \/ s = SlotOf(Latest + 1)))

SecretKept == /\ secret \subseteq 1 .. count
              /\ step["engine"] # "idle" => (rev["engine"] \in secret <=> kept)
              /\ step["engine"] = "again" => again
              /\ again => ~kept
Debt == /\ kept => owed = 2
        /\ crashes = 0 => owed = (IF kept THEN 2 ELSE IF again THEN 1 ELSE 0)
ScrubInv == ~disturbed => acks = 0 /\ SecretKept /\ Debt /\ \A s \in Slot : stain[s] => StainOwed(s)

\* The scrubbing invariant holds initially.
LEMMA InitScrub == Init => ScrubInv
  BY DEF Init, ScrubInv, SecretKept, Debt, Slot, Writer

\* Starting a frame of the engine keeps the explanation of every stain.
LEMMA FrameScrub ==
  ASSUME TypeOK, Lane, ~disturbed, ScrubInv, NEW r \in Revision, WriteFrame("engine", r),
         step["engine"] \in {"idle", "again"},
         secret \subseteq secret', UNCHANGED <<head, disturbed, acks, crashes>>,
         secret' \subseteq 1 .. count', r \in secret' <=> kept', again' => ~kept', Debt',
         owed' = 2 \/ owed' = Paid
  PROVE  ScrubInv'
<1> USE DEF Writer
<1>t. /\ next["engine"] = Latest + 1 /\ Latest \in Nat /\ SlotOf(Latest + 1) \in Slot /\ ~Writing
      /\ step \in [Writer -> {"idle", "attached", "drawn", "copying", "zeroing", "copied", "sealing", "again"}]
      /\ owed \in 0 .. 2
  BY LatestIsMax, SlotsAlternate DEF TypeOK, Lane, OneWriter, Writing
<1>1. /\ gen'["engine"] = Latest + 1 /\ rev'["engine"] = r /\ step'["engine"] = "copying"
      /\ step'["ack"] = step["ack"]
  BY <1>t DEF WriteFrame, TypeOK
<1>2. zero'["engine"] = NeedsZero(SlotOf(Latest + 1), r)
  BY <1>t, Zenon DEF WriteFrame, TypeOK
<1>3. acks = 0 /\ SecretKept /\ \A s \in Slot : stain[s] => StainOwed(s)
  BY DEF ScrubInv
<1>5. SecretKept'
  BY <1>1 DEF SecretKept
<1>7. Cur' = SlotOf(Latest + 1) /\ Writing'
  BY <1>1 DEF Cur, Writing, SlotOf
<1>6. ASSUME NEW s \in Slot, stain'[s] PROVE StainOwed(s)'
  <2>2. CASE s = SlotOf(Latest + 1)
    <3>1. stain[s] \/ r \in secret'
      BY <1>6, <1>t, <2>2, Zenon DEF WriteFrame, TypeOK
    <3>2. CASE r \in secret'
      BY <1>7, <2>2, <3>2 DEF StainOwed
    <3>3. CASE stain[s] /\ r \notin secret'
      <4>1. head[s].gen # 0 /\ head[s].rev \in secret
        BY <1>3, <1>t, <3>3 DEF StainOwed
      <4>2. zero'["engine"]
        BY <1>2, <2>2, <3>3, <4>1 DEF NeedsZero
      <4> QED BY <1>1, <1>7, <2>2, <4>2 DEF StainOwed, BeingZeroed
    <3> QED BY <3>1, <3>2, <3>3
  <2>3. CASE s # SlotOf(Latest + 1)
    <3>1. stain[s]
      BY <1>6, <1>t, <2>3, Zenon DEF WriteFrame, TypeOK
    <3>2. head[s].gen # 0 /\ head[s].rev \in secret /\ owed = 2
      BY <1>3, <1>t, <2>3, <3>1 DEF StainOwed
    <3>3. owed' \in {1, 2}
      BY <3>2 DEF Paid
    <3> QED BY <1>7, <2>3, <3>2, <3>3 DEF StainOwed
  <2> QED BY <2>2, <2>3
<1> QED BY <1>3, <1>5, <1>6 DEF ScrubInv

\* Every step keeps the scrubbing invariant.
LEMMA NextScrub ==
  ASSUME Inv, RecentInv, ScrubInv, [Next]_vars, Latest' \in Nat, acks' = 0 => Lane'
  PROVE  ScrubInv'
<1> USE DEF Writer
<1>t. TypeOK /\ WriterHolds
  BY DEF Inv
<1>a. CASE disturbed'
  BY <1>a DEF ScrubInv
<1>b. CASE UNCHANGED vars
  BY <1>b, SameHeaders DEF vars, slotVars, frameVars, writerVars, scrubVars, faultVars, ScrubInv,
     SecretKept, Debt, StainOwed, Writing, Cur, BeingZeroed
<1>c. ASSUME ~disturbed', Next PROVE ScrubInv'
  <2>1. CASE Read
    <3>1. UNCHANGED <<slotVars, frameVars, writerVars, scrubVars, faultVars>>
      BY <2>1 DEF Read, StartRead, ReadHeader, ReadPayload, ReadAgain, Apply
    <3> QED BY <3>1, SameHeaders DEF slotVars, frameVars, writerVars, scrubVars, faultVars, ScrubInv,
               SecretKept, Debt, StainOwed, Writing, Cur, BeingZeroed
  <2>2. CASE AckAttach
    BY <1>c, <2>2 DEF AckAttach
  <2>e. CASE disturbed /\ ~Read /\ ~AckAttach
    <3>1. disturbed => disturbed'
      BY <1>c, <2>e DEF Next, Publish, PublishAgain, AckDraw, AckPublish, Write, Copied, Zeroed,
         BeginHeader, Seal, Crash, faultVars
    <3> QED BY <1>c, <2>e, <3>1
  <2>d. CASE ~disturbed
    <3>1. /\ acks = 0 /\ Lane /\ SecretKept /\ Debt /\ \A s \in Slot : stain[s] => StainOwed(s)
          /\ next["engine"] \in Nat \ {0} /\ Latest \in Nat /\ step["ack"] = "idle" /\ owed \in 0 .. 2
          /\ kept \in BOOLEAN /\ again \in BOOLEAN
      BY <1>t, <2>d, LatestIsMax DEF ScrubInv, RecentInv, Lane, OneWriter, TypeOK
    <3>2. ASSUME NEW sec \in BOOLEAN, Publish(sec) PROVE ScrubInv'
      <4>1. /\ count \in Nat /\ count + 1 \in Revision /\ count' = count + 1
            /\ count + 1 \notin secret /\ secret \subseteq 1 .. count
        BY <1>t, <3>1, <3>2, LaneBounds DEF Publish, TypeOK, Revision, SecretKept
      <4>2. /\ secret \subseteq secret' /\ secret' \subseteq 1 .. count'
            /\ count + 1 \in secret' <=> kept'
        BY <3>2, <4>1 DEF Publish
      <4>3. owed' = (IF sec THEN 2 ELSE Paid) /\ (kept' <=> sec) /\ crashes' = crashes
            /\ (again' <=> kept /\ ~sec)
        BY <3>2, Zenon DEF Publish, faultVars, Scrubs
      <4>4. Debt'
        BY <3>1, <4>3 DEF Debt, Paid
      <4>5. again' => ~kept'
        BY <4>3
      <4>6. WriteFrame("engine", count + 1) /\ step["engine"] = "idle"
            /\ UNCHANGED <<head, disturbed, acks, crashes>>
        BY <3>2 DEF Publish, faultVars
      <4> QED BY <1>t, <2>d, <3>1, <4>1, <4>2, <4>3, <4>4, <4>5, <4>6, FrameScrub
    <3>3. CASE PublishAgain
      <4>1. /\ again /\ ~kept /\ rev["engine"] \notin secret /\ secret \subseteq 1 .. count
            /\ rev["engine"] \in Revision /\ owed' = Paid /\ ~again' /\ kept' = kept
            /\ secret' = secret /\ count' = count /\ crashes' = crashes
        BY <1>t, <3>1, <3>3 DEF PublishAgain, SecretKept, WriterHolds, Holding, faultVars
      <4>2. Debt'
        BY <3>1, <4>1 DEF Debt, Paid
      <4>3. WriteFrame("engine", rev["engine"]) /\ step["engine"] = "again"
            /\ UNCHANGED <<head, disturbed, acks, crashes>>
        BY <3>3 DEF PublishAgain, faultVars
      <4> QED BY <1>t, <2>d, <3>1, <4>1, <4>2, <4>3, FrameScrub
    <3>4. CASE AckDraw \/ AckPublish \/ Write("ack")
      BY <3>1, <3>4 DEF AckDraw, AckPublish, Write, Copied, Zeroed, BeginHeader, Seal
    <3>5. CASE Copied("engine")
      <4>1. /\ step["engine"] = "copying"
            /\ step' = [step EXCEPT !["engine"] = IF zero["engine"] THEN "zeroing" ELSE "copied"]
            /\ UNCHANGED <<head, stain, secret, count, gen, rev, next, zero, kept, again, owed, acks, crashes>>
        BY <3>5 DEF Copied, frameVars, scrubVars, faultVars
      <4>2. step'["engine"] \in {"zeroing", "copied"} /\ (zero["engine"] => step'["engine"] = "zeroing")
        BY <1>t, <4>1 DEF TypeOK
      <4>3. SecretKept' /\ Debt'
        BY <3>1, <4>1, <4>2 DEF SecretKept, Debt
      <4>4. \A s \in Slot : stain'[s] => StainOwed(s)'
        <5>1. Writing /\ Writing' /\ Cur' = Cur /\ (BeingZeroed => BeingZeroed')
          BY <4>1, <4>2 DEF Writing, Cur, BeingZeroed, SlotOf
        <5> QED BY <3>1, <4>1, <5>1 DEF StainOwed
      <4> QED BY <3>1, <4>1, <4>3, <4>4 DEF ScrubInv
    <3>6. CASE Zeroed("engine")
      <4>1. /\ step["engine"] = "zeroing" /\ step' = [step EXCEPT !["engine"] = "copied"]
            /\ stain' = [stain EXCEPT ![Cur] = FALSE]
            /\ UNCHANGED <<head, secret, count, gen, rev, next, zero, kept, again, owed, acks, crashes>>
        BY <3>6 DEF Zeroed, Cur, frameVars, scrubVars, faultVars
      <4>2. step'["engine"] = "copied"
        BY <1>t, <4>1 DEF TypeOK
      <4>3. SecretKept' /\ Debt'
        BY <3>1, <4>1, <4>2 DEF SecretKept, Debt
      <4>4. ASSUME NEW s \in Slot, stain'[s] PROVE StainOwed(s)'
        <5>1. s # Cur /\ stain[s]
          BY <1>t, <4>1, <4>4, Zenon DEF TypeOK
        <5>2. Cur' = Cur /\ Writing /\ Writing'
          BY <4>1, <4>2 DEF Cur, SlotOf, Writing
        <5> QED BY <3>1, <4>1, <5>1, <5>2 DEF StainOwed
      <4> QED BY <3>1, <4>1, <4>3, <4>4 DEF ScrubInv
    <3>7. CASE BeginHeader("engine")
      <4>1. /\ step["engine"] = "copied" /\ step' = [step EXCEPT !["engine"] = "sealing"]
            /\ head' = [head EXCEPT ![Cur] = NoHeader]
            /\ UNCHANGED <<stain, secret, count, gen, rev, next, zero, kept, again, owed, acks, crashes>>
        BY <3>7 DEF BeginHeader, Cur, frameVars, scrubVars, faultVars
      <4>2. step'["engine"] = "sealing"
        BY <1>t, <4>1 DEF TypeOK
      <4>3. SecretKept' /\ Debt'
        BY <3>1, <4>1, <4>2 DEF SecretKept, Debt
      <4>4. ASSUME NEW s \in Slot, stain'[s] PROVE StainOwed(s)'
        <5>1. Cur' = Cur /\ stain[s] /\ Writing /\ Writing'
          BY <4>1, <4>2, <4>4 DEF Cur, SlotOf, Writing
        <5>2. s # Cur => head'[s] = head[s]
          BY <1>t, <4>1 DEF TypeOK
        <5>3. ~BeingZeroed
          BY <4>1 DEF BeingZeroed
        <5> QED BY <3>1, <4>1, <5>1, <5>2, <5>3 DEF StainOwed
      <4> QED BY <3>1, <4>1, <4>3, <4>4 DEF ScrubInv
    <3>8. CASE Seal("engine")
      <4>1. /\ step["engine"] = "sealing" /\ step'["engine"] \in {"idle", "again"}
            /\ step'["engine"] = "again" => again
            /\ head' = [head EXCEPT ![Cur] = [gen |-> gen["engine"], rev |-> rev["engine"]]]
            /\ UNCHANGED <<stain, secret, count, gen, rev, next, kept, again, owed, acks, crashes>>
        BY <1>t, <3>8 DEF Seal, Cur, scrubVars, TypeOK
      <4>3. SecretKept' /\ Debt'
        BY <3>1, <4>1 DEF SecretKept, Debt
      <4>5. Writing /\ ~Writing' /\ Lane'
        BY <3>1, <4>1 DEF Writing
      <4>6. gen["engine"] = Latest + 1 /\ next["engine"] = Latest + 2 /\ next["engine"] = Latest' + 1
        BY <3>1, <4>1, <4>5 DEF Lane, OneWriter
      <4>7. Cur = SlotOf(Latest + 1) /\ Cur \in Slot /\ Latest' = Latest + 1
            /\ SlotOf(Latest' + 1) # Cur /\ SlotOf(Latest' + 1) \in Slot
        BY <3>1, <4>6, SlotsAlternate DEF Cur
      <4>4. ASSUME NEW s \in Slot, stain'[s] PROVE StainOwed(s)'
        <5>1. stain[s] /\ StainOwed(s)
          BY <3>1, <4>1, <4>4
        <5>2. CASE s # Cur
          <6>1. head'[s] = head[s] /\ s = SlotOf(Latest' + 1)
            BY <1>t, <4>1, <4>7, <5>2 DEF TypeOK, Slot
          <6> QED BY <4>1, <4>5, <5>1, <5>2, <6>1 DEF StainOwed
        <5>3. CASE s = Cur
          <6>1. kept
            BY <4>1, <4>5, <5>1, <5>3 DEF StainOwed, BeingZeroed
          <6>2. head'[s].gen # 0 /\ head'[s].rev \in secret /\ owed = 2
            BY <1>t, <3>1, <4>1, <4>6, <4>7, <5>3, <6>1 DEF TypeOK, SecretKept, Debt
          <6> QED BY <4>1, <4>5, <6>2 DEF StainOwed
        <5> QED BY <5>2, <5>3
      <4> QED BY <3>1, <4>1, <4>3, <4>4 DEF ScrubInv
    <3>9. CASE Crash
      <4>1. /\ step["engine"] \in {"idle", "again"} /\ step'["engine"] = "idle"
            /\ ~kept' /\ ~again' /\ crashes' = crashes + 1 /\ crashes \in Nat
            /\ UNCHANGED <<head, stain, secret, count, owed, acks>>
        <5>1. /\ ~disturbed' /\ disturbed' = (disturbed \/ step["engine"] \notin {"idle", "again"})
              /\ step' = [w \in Writer |-> "idle"] /\ kept' = FALSE /\ again' = FALSE
              /\ crashes' = crashes + 1
              /\ UNCHANGED <<head, stain, secret, count, owed, acks>>
          BY <1>c, <3>9 DEF Crash, slotVars, frameVars
        <5>2. step["engine"] \in {"idle", "again"}
          BY <5>1, Zenon
        <5>3. crashes \in Nat
          BY <1>t, LaneBounds DEF TypeOK
        <5> QED BY <5>1, <5>2, <5>3
      <4>2. SecretKept' /\ Debt'
        BY <3>1, <4>1 DEF SecretKept, Debt
      <4>3. ~Writing /\ ~Writing' /\ Latest' = Latest
        BY <4>1, SameHeaders DEF Writing
      <4>4. \A s \in Slot : stain'[s] => StainOwed(s)'
        BY <3>1, <4>1, <4>3 DEF StainOwed
      <4> QED BY <3>1, <4>1, <4>2, <4>4 DEF ScrubInv
    <3> QED BY <1>c, <2>1, <2>2, <3>2, <3>3, <3>4, <3>5, <3>6, <3>7, <3>8, <3>9 DEF Next, Write
  <2> QED BY <2>1, <2>2, <2>d, <2>e
<1> QED BY <1>a, <1>b, <1>c

\* Two publications without a secret leave no byte of an earlier secret in either
\* slot, with any number of failed notifications and of crashes between frames;
\* and within one process an envelope that drops the secret leaves none either.
THEOREM ScrubbedClean == Spec => []ScrubLeavesNothing
<1>1. Inv /\ ScrubInv => ScrubLeavesNothing
  <2> SUFFICES ASSUME Inv, ScrubInv, Quiet, ~disturbed, owed = 0 \/ (~kept /\ ~again /\ crashes = 0),
                      NEW s \in Slot, stain[s]
               PROVE  FALSE
    BY DEF ScrubLeavesNothing
  <2>1. ~Writing
    BY DEF Quiet, Writer, Writing
  <2>2. owed = 0
    BY DEF ScrubInv, Debt
  <2> QED BY <2>1, <2>2 DEF ScrubInv, StainOwed
<1>2. Inv /\ RecentInv /\ ScrubInv /\ [Next]_vars /\ Inv' /\ RecentInv' => ScrubInv'
  <2> SUFFICES ASSUME Inv, RecentInv, ScrubInv, [Next]_vars, Inv', RecentInv' PROVE ScrubInv'
    OBVIOUS
  <2>1. TypeOK' => Latest' \in Nat
    BY DEF TypeOK, Latest, Header, Slot
  <2>2. Latest' \in Nat /\ (acks' = 0 => Lane')
    BY <2>1 DEF Inv, RecentInv
  <2> QED BY <2>2, NextScrub
<1> QED BY LaneInvariant, RecentInvariant, InitScrub, <1>1, <1>2, PTL DEF Spec

=============================================================================
