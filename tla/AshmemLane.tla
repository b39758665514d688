------------------------------ MODULE AshmemLane ------------------------------
(***************************************************************************)
(* The Extension's lane in the shared memory of a session: two slots that  *)
(* the Extension writes in turn and the UI reads without any lock.         *)
(*                                                                         *)
(* A slot has a header, which names a generation and the checksum of the   *)
(* payload, and a payload.  Memory is copied, so a header or a payload     *)
(* that is being written is torn; a torn header does not parse and a torn  *)
(* payload matches no checksum.  An envelope is known by its revision, the *)
(* number of its publication; envelopes with an SSO URL are secret, and    *)
(* longer than the others.                                                 *)
(*                                                                         *)
(* The engine of the Extension is the regular writer.  A Want for an ended *)
(* attempt is acknowledged through a binding of its own, a second writer   *)
(* on the same lane with a generation counter of its own.                  *)
(***************************************************************************)
EXTENDS Integers, FiniteSets

CONSTANTS
  MaxRevision, \* bound on the envelopes published
  MaxAck,      \* bound on the acknowledgements
  MaxCrash     \* bound on the crashes of the Extension process

ASSUME LaneBounds == MaxRevision \in Nat /\ MaxAck \in Nat /\ MaxCrash \in Nat

Writer   == {"engine", "ack"}
Revision == 1 .. MaxRevision
Slot     == 0 .. 1                  \* SLOT_COUNT
Tries    == 3

SlotOf(g) == g % 2
NoHeader  == [gen |-> 0, rev |-> 0]  \* a header that does not parse
Torn      == 0                       \* a payload that is being written

VARIABLES
  head, body, \* header and payload of each slot
  stain,      \* does a slot still hold bytes of a secret payload?
  secret,     \* revisions whose envelope is secret
  count,      \* envelopes published so far
  step, gen, rev, next, \* each writer: where it is, its frame, its next generation
  zero,       \* must the writer zero the rest of the payload?
  kept,       \* the engine's published envelope is secret
  again,      \* a scrub of the engine lacks its second publication
  rpc, rslot, rtry, rhead, rbody, best, \* the reader
  applied,    \* newest revision the UI has applied
  sealed,     \* history: revisions whose header was written
  floor,      \* history: newest generation in place when the read began
  calm,       \* history: nothing was being written since the read began
  acks, since, \* acknowledgements; new frames of the engine alone since
  alone,      \* is the frame of the engine a new one, met by no acknowledgement?
  crashes,
  owed,       \* history: publications without a secret until both slots had one
  disturbed   \* history: did an acknowledgement, or a crash that cut a frame short, happen?

slotVars   == <<head, body, stain>>
frameVars  == <<secret, count, sealed>>
writerVars == <<step, gen, rev, next, zero, alone>>
scrubVars  == <<kept, again, owed>>
readVars   == <<rpc, rslot, rtry, rhead, rbody, best, floor>>
faultVars  == <<acks, since, crashes, disturbed>>
vars == <<slotVars, frameVars, writerVars, scrubVars, readVars, calm, applied, faultVars>>

Latest == IF head[0].gen > head[1].gen THEN head[0].gen ELSE head[1].gen

Init ==
  /\ head = [s \in Slot |-> NoHeader] /\ body = [s \in Slot |-> Torn]
  /\ stain = [s \in Slot |-> FALSE]
  /\ secret = {} /\ count = 0 /\ sealed = {}
  /\ step = [w \in Writer |-> "idle"]
  /\ gen = [w \in Writer |-> 0] /\ rev = [w \in Writer |-> 0]
  /\ next = [w \in Writer |-> 1] /\ zero = [w \in Writer |-> FALSE]
  /\ kept = FALSE /\ again = FALSE /\ owed = 0
  /\ rpc = "idle" /\ rslot = 0 /\ rtry = 1 /\ rhead = NoHeader /\ rbody = Torn
  /\ best = NoHeader /\ floor = 0 /\ calm = FALSE /\ applied = 0
  /\ acks = 0 /\ since = 0 /\ alone = FALSE /\ crashes = 0 /\ disturbed = FALSE

\* Mutant: the second writer starts to count anew.
SeedAtOne == 1

\* seed_next_generation
Seed == Latest + 1

-----------------------------------------------------------------------------
(* Writers: publish and write_frame                                        *)

Quiet == \A w \in Writer : step[w] = "idle"

\* The rest of a longer payload is zeroed if the header in place still tells
\* its length.
NeedsZero(s, r) == head[s].gen # 0 /\ head[s].rev \in secret /\ r \notin secret'

\* The writer takes a generation and starts to copy the payload of revision r.
WriteFrame(w, r) ==
  LET s == SlotOf(next[w])
  IN /\ gen' = [gen EXCEPT ![w] = next[w]]
     /\ rev' = [rev EXCEPT ![w] = r]
     /\ next' = [next EXCEPT ![w] = @ + 1]
     /\ zero' = [zero EXCEPT ![w] = NeedsZero(s, r)]
     /\ body' = [body EXCEPT ![s] = Torn]
     /\ stain' = [stain EXCEPT ![s] = @ \/ r \in secret']
     /\ step' = [step EXCEPT ![w] = "copying"]
     /\ calm' = FALSE
     /\ alone' = (step["engine"] = "idle" /\ step["ack"] = "idle")

\* Mutant: one publication is enough.
ScrubsNever(sec) == FALSE

\* publish_snapshot: dropping a secret is published twice, once per slot.
Scrubs(sec) == kept /\ ~sec

\* What is left of a debt of publications after one without a secret.
Paid == IF owed = 0 THEN 0 ELSE owed - 1

Publish(sec) ==
  /\ step["engine"] = "idle"
  /\ count < MaxRevision
  /\ count' = count + 1
  /\ secret' = IF sec THEN secret \union {count + 1} ELSE secret
  /\ WriteFrame("engine", count + 1)
  /\ again' = Scrubs(sec)
  /\ kept' = sec
  /\ owed' = IF sec THEN 2 ELSE Paid
  /\ UNCHANGED <<head, sealed, readVars, applied, faultVars>>

Copied(w) ==
  /\ step[w] = "copying"
  /\ body' = [body EXCEPT ![SlotOf(gen[w])] = rev[w]]
  /\ step' = [step EXCEPT ![w] = IF zero[w] THEN "zeroing" ELSE "copied"]
  /\ UNCHANGED <<calm, head, stain, frameVars, gen, rev, next, zero, alone, scrubVars, readVars, applied, faultVars>>

Zeroed(w) ==
  /\ step[w] = "zeroing"
  /\ stain' = [stain EXCEPT ![SlotOf(gen[w])] = FALSE]
  /\ step' = [step EXCEPT ![w] = "copied"]
  /\ UNCHANGED <<calm, head, body, frameVars, gen, rev, next, zero, alone, scrubVars, readVars, applied, faultVars>>

\* The header is written last.
BeginHeader(w) ==
  /\ step[w] = "copied"
  /\ head' = [head EXCEPT ![SlotOf(gen[w])] = NoHeader]
  /\ step' = [step EXCEPT ![w] = "sealing"]
  /\ UNCHANGED <<calm, body, stain, frameVars, gen, rev, next, zero, alone, scrubVars, readVars, applied, faultVars>>

\* notify follows the header.  It may fail, because the UI is gone or because
\* the connection of an acknowledgement displaced that of the engine at the
\* listener; publish_snapshot then returns after the first publication and
\* forgets the second.
Notified == {"sent", "failed"}
Seal(w) ==
  /\ step[w] = "sealing"
  /\ head' = [head EXCEPT ![SlotOf(gen[w])] = [gen |-> gen[w], rev |-> rev[w]]]
  /\ sealed' = sealed \union {rev[w]}
  /\ \E n \in Notified :
       step' = [step EXCEPT ![w] = IF w = "engine" /\ again /\ n = "sent" THEN "again" ELSE "idle"]
  /\ since' = IF w = "engine" /\ alone THEN since + 1 ELSE 0
  /\ UNCHANGED <<calm, body, stain, secret, count, gen, rev, next, zero, alone, scrubVars, readVars, applied,
                 acks, crashes, disturbed>>

\* The second publication of a scrub: the same envelope, a new generation.
PublishAgain ==
  /\ step["engine"] = "again"
  /\ secret' = secret
  /\ WriteFrame("engine", rev["engine"])
  /\ again' = FALSE
  /\ owed' = Paid
  /\ UNCHANGED <<head, count, sealed, kept, readVars, applied, faultVars>>

-----------------------------------------------------------------------------
(* acknowledge_terminal_platform_vpn_start_delivery: attach_vpn_raw seeds  *)
(* the generation from the headers, publish_state writes one frame         *)

AckAttach ==
  /\ step["ack"] = "idle"
  /\ acks < MaxAck
  /\ next' = [next EXCEPT !["ack"] = Seed]
  /\ step' = [step EXCEPT !["ack"] = "attached"]
  /\ acks' = acks + 1 /\ since' = 0 /\ alone' = FALSE /\ disturbed' = TRUE
  /\ UNCHANGED <<calm, slotVars, frameVars, gen, rev, zero, scrubVars, readVars, applied, crashes>>

\* updated_at is drawn before the frame is written, and outside the engine lock.
AckDraw ==
  /\ step["ack"] = "attached"
  /\ count < MaxRevision
  /\ count' = count + 1
  /\ rev' = [rev EXCEPT !["ack"] = count + 1]
  /\ step' = [step EXCEPT !["ack"] = "drawn"]
  /\ UNCHANGED <<calm, slotVars, secret, sealed, gen, next, zero, alone, scrubVars, readVars, applied, faultVars>>

AckPublish ==
  /\ step["ack"] = "drawn"
  /\ secret' = secret
  /\ WriteFrame("ack", rev["ack"])
  /\ UNCHANGED <<head, count, sealed, scrubVars, readVars, applied, faultVars>>

\* The Extension dies and its successor attaches.
Crash ==
  /\ crashes < MaxCrash
  /\ crashes' = crashes + 1
  /\ step' = [w \in Writer |-> "idle"]
  /\ next' = [next EXCEPT !["engine"] = Seed]
  /\ kept' = FALSE /\ again' = FALSE
  /\ since' = 0
  /\ disturbed' = (disturbed \/ step["engine"] \notin {"idle", "again"})
  /\ UNCHANGED <<calm, owed, slotVars, frameVars, gen, rev, zero, alone, readVars, applied, acks>>

-----------------------------------------------------------------------------
(* The reader: read_lane and read_frame                                    *)

StartRead ==
  /\ rpc = "idle"
  /\ rpc' = "first" /\ rslot' = 0 /\ rtry' = 1
  /\ best' = NoHeader /\ floor' = Latest /\ calm' = Quiet
  /\ UNCHANGED <<rhead, rbody, slotVars, frameVars, writerVars, scrubVars, applied, faultVars>>

\* After the last slot the newest frame, if any, is applied.
NextSlot ==
  IF rslot = 0 THEN rslot' = 1 /\ rtry' = 1 /\ rpc' = "first"
               ELSE rpc' = "apply" /\ UNCHANGED <<rslot, rtry>>

Retry ==
  IF rtry < Tries THEN rtry' = rtry + 1 /\ rpc' = "first" /\ UNCHANGED rslot
                  ELSE NextSlot

ReadHeader ==
  /\ rpc = "first"
  /\ IF head[rslot].gen = 0
     THEN Retry /\ UNCHANGED rhead
     ELSE rhead' = head[rslot] /\ rpc' = "payload" /\ UNCHANGED <<rslot, rtry>>
  /\ UNCHANGED <<calm, rbody, best, floor, slotVars, frameVars, writerVars, scrubVars, applied, faultVars>>

ReadPayload ==
  /\ rpc = "payload"
  /\ rbody' = body[rslot]
  /\ rpc' = "second"
  /\ UNCHANGED <<calm, rslot, rtry, rhead, best, floor, slotVars, frameVars, writerVars, scrubVars,
                 applied, faultVars>>

\* Mutant: the checksum is not compared.
WholeHeader == head[rslot] = rhead

\* The same header again, and a payload with the checksum it names.
Whole == head[rslot] = rhead /\ rbody = rhead.rev

\* Mutant: the last slot wins.
NewerLast(a, b) == TRUE
Newer(a, b) == a.gen > b.gen

ReadAgain ==
  /\ rpc = "second"
  /\ IF Whole
     THEN /\ LET found == [gen |-> rhead.gen, rev |-> rbody]
             IN best' = IF Newer(found, best) THEN found ELSE best
          /\ NextSlot
     ELSE Retry /\ UNCHANGED best
  /\ UNCHANGED <<calm, rhead, rbody, floor, slotVars, frameVars, writerVars, scrubVars, applied, faultVars>>

\* Mutant: an older revision is applied too.
AdvancesAlways(r) == TRUE

\* A revision that is not newer than the last one is ignored.
Advances(r) == r > applied

Apply ==
  /\ rpc = "apply"
  /\ rpc' = "idle"
  /\ applied' = IF best.gen # 0 /\ Advances(best.rev) THEN best.rev ELSE applied
  /\ UNCHANGED <<calm, rslot, rtry, rhead, rbody, best, floor, slotVars, frameVars, writerVars, scrubVars,
                 faultVars>>

-----------------------------------------------------------------------------

Write(w) == Copied(w) \/ Zeroed(w) \/ BeginHeader(w) \/ Seal(w)
Read == StartRead \/ ReadHeader \/ ReadPayload \/ ReadAgain \/ Apply

Next ==
  \/ \E sec \in BOOLEAN : Publish(sec)
  \/ \E w \in Writer : Write(w)
  \/ PublishAgain \/ AckAttach \/ AckDraw \/ AckPublish \/ Crash
  \/ Read

Spec == Init /\ [][Next]_vars

\* A writer ends the publication it began, and the UI reads on every tick.
FairSpec ==
  /\ Spec
  /\ \A w \in Writer : WF_vars(Write(w))
  /\ WF_vars(PublishAgain) /\ WF_vars(AckDraw) /\ WF_vars(AckPublish)
  /\ WF_vars(Read)

-----------------------------------------------------------------------------
(* Properties                                                              *)

Header  == [gen : Nat, rev : 0 .. MaxRevision]
Payload == 0 .. MaxRevision

TypeOK ==
  /\ head \in [Slot -> Header] /\ body \in [Slot -> Payload] /\ stain \in [Slot -> BOOLEAN]
  /\ secret \subseteq Revision /\ count \in 0 .. MaxRevision /\ sealed \subseteq Revision
  /\ step \in [Writer -> {"idle", "attached", "drawn", "copying", "zeroing", "copied", "sealing", "again"}]
  /\ gen \in [Writer -> Nat] /\ next \in [Writer -> Nat \ {0}]
  /\ rev \in [Writer -> 0 .. MaxRevision] /\ zero \in [Writer -> BOOLEAN]
  /\ kept \in BOOLEAN /\ again \in BOOLEAN
  /\ rpc \in {"idle", "first", "payload", "second", "apply"}
  /\ rslot \in Slot /\ rtry \in 1 .. Tries
  /\ rhead \in Header /\ rbody \in Payload /\ best \in Header /\ floor \in Nat /\ calm \in BOOLEAN
  /\ applied \in 0 .. MaxRevision
  /\ acks \in 0 .. MaxAck /\ since \in Nat /\ alone \in BOOLEAN
  /\ owed \in 0 .. 2 /\ crashes \in 0 .. MaxCrash /\ disturbed \in BOOLEAN

\* Whatever the writers do while it reads, the reader never takes a payload
\* that was not published in full: the header that names it was written after
\* the last of its bytes.
ReadIsWhole == best.gen # 0 => best.rev \in sealed

\* While the engine is the only writer a read that finds anything finds a frame
\* at most one generation older than the newest one in place when it began: of
\* two slots a writer disturbs one, whatever crashes left behind.  A read that
\* no writer met finds the newest frame itself.  An acknowledgement counts from
\* the headers it met when it attached: the engine may be ahead of it when it
\* writes, and a read that falls between may go back by any number.
ReadIsRecent ==
  rpc = "apply" /\ acks = 0 =>
    /\ (best.gen # 0 => best.gen + 1 >= floor)
    /\ (calm => best.gen = floor)

\* Two publications without a secret leave no byte of an earlier secret in the
\* region, whatever notification failed and whether or not the Extension died
\* between them.  Within one process an envelope that drops the secret brings
\* both, unless its notification failed: then the next publication does.  A
\* crash in the middle of a frame or a second writer may leave some.
ScrubLeavesNothing ==
  /\ Quiet /\ ~disturbed
  /\ owed = 0 \/ (~kept /\ ~again /\ crashes = 0)
  => \A s \in Slot : ~stain[s]

\* The UI ends up with the newest envelope of the lane, provided the engine
\* published a frame of its own after each acknowledgement.
Newest(r) == r \in sealed \union {0} /\ \A q \in sealed : q <= r
NewestArrives == <>[](since >= acks => Newest(applied))

\* The lane is a LaneRegister: revisions reach the UI whole and in order.
Register == INSTANCE LaneRegister
RegisterSpec == Register!Spec

=============================================================================
