---------------------------- MODULE AudioRing ----------------------------
(***************************************************************************)
(* The lock-free ring of mic-sidecar/src/ring.rs between the capture       *)
(* callback (one producer, push_from_iter) and the feeder thread of the    *)
(* pipeline (one consumer, feed_appsrc: pop_slice, or clear while muted).  *)
(*                                                                         *)
(* A step is one atomic access of one thread.  The sample pushed at        *)
(* position p is represented by p + 1, silence by 0: that is all the       *)
(* properties tell apart.  With "weak" in the world a thread's relaxed     *)
(* access to a slot's value may take effect out of order, as the release   *)
(* and acquire accesses around it allow on the aarch64 builds; without it  *)
(* the accesses take effect in program order (x86_64).                     *)
(***************************************************************************)
EXTENDS Naturals

CONSTANTS
    Capacity,      \* samples the ring holds
    MaxSamples,    \* bound: samples captured in one behaviour
    Batches,       \* sizes of the buffers the capture callback delivers
    Frame,         \* samples of one output frame of the feeder
    Worlds         \* {"weak"} \cup {"mute"} subsets: which build, is muting used

ASSUME RingAssumption ==
    /\ Capacity \in Nat \ {0}
    /\ Frame \in Nat \ {0}
    /\ Batches \subseteq Nat \ {0}

VARIABLES
    slots,         \* the slots: value and sequence
    wrote,         \* AudioRing.write
    readAt,        \* AudioRing.read
    producer,      \* the capture callback
    feeder,        \* the feeder thread
    heard,         \* the last sample handed to the pipeline: position, value
    audible,       \* 1 + the position of the last sample that passed validation
    repeated,      \* a position was audible twice or out of order
    world

ringVars == <<slots, wrote, readAt, producer, feeder, heard, audible, repeated>>
vars == <<ringVars, world>>

May(b) == b \in world

Slot(position) == position % Capacity

Monus(a, b) == IF a > b THEN a - b ELSE 0

Smaller(a, b) == IF a < b THEN a ELSE b

IdleProducer == [pc |-> "idle", total |-> 0, read |-> 0, at |-> 0]

IdleFeeder == [pc |-> "idle", read |-> 0, count |-> 0, at |-> 0, before |-> 0, value |-> 0]

Init ==
    /\ world \in Worlds
    /\ slots = [i \in 0..(Capacity - 1) |-> [value |-> 0, sequence |-> 0]]
    /\ wrote = 0
    /\ readAt = 0
    /\ producer = IdleProducer
    /\ feeder = IdleFeeder
    /\ heard = [position |-> 0, value |-> 0]
    /\ audible = 0
    /\ repeated = FALSE

(***************************************************************************)
(* The producer: push_from_iter.                                           *)
(***************************************************************************)
\* The oldest position that stays readable once the buffer is written.
MinimumRead == Monus(wrote + producer.total, Capacity)

\* A buffer longer than the ring only writes its last Capacity samples.
Skip(total) == Monus(total, Capacity)

Push(total) ==
    /\ producer.pc = "idle"
    /\ wrote + total <= MaxSamples
    /\ producer' = [pc |-> "drop", total |-> total, read |-> readAt, at |-> wrote + Skip(total)]
    /\ UNCHANGED <<slots, wrote, readAt, feeder, heard, audible, repeated, world>>

\* The exchange succeeds when nobody moved the read position since it was
\* loaded; otherwise it is loaded again.
DropStale ==
    /\ producer.pc = "drop"
    /\ \/ /\ producer.read >= MinimumRead
          /\ producer' = [producer EXCEPT !.pc = "invalidate"]
          /\ UNCHANGED readAt
       \/ /\ producer.read < MinimumRead
          /\ readAt = producer.read
          /\ readAt' = MinimumRead
          /\ producer' = [producer EXCEPT !.pc = "invalidate"]
       \/ /\ producer.read < MinimumRead
          /\ readAt # producer.read
          /\ producer' = [producer EXCEPT !.read = readAt]
          /\ UNCHANGED readAt
    /\ UNCHANGED <<slots, wrote, feeder, heard, audible, repeated, world>>

StoreSequence(sequence, pc) ==
    /\ slots' = [slots EXCEPT ![Slot(producer.at)].sequence = sequence]
    /\ producer' = [producer EXCEPT !.pc = pc]

StoreValue(pc) ==
    /\ slots' = [slots EXCEPT ![Slot(producer.at)].value = producer.at + 1]
    /\ producer' = [producer EXCEPT !.pc = pc]

\* Seeded fault: the slot is not marked invalid before its value changes.
WriteSlotUnmarked ==
    /\ \/ /\ producer.pc = "invalidate"
          /\ StoreValue("publish")
       \/ /\ producer.pc = "publish"
          /\ StoreSequence(producer.at + 1, "next")
    /\ UNCHANGED <<wrote, readAt, feeder, heard, audible, repeated, world>>

\* Invalidate, store the sample, publish.  The store of the sample is relaxed
\* and may become visible before the invalidation it follows.
WriteSlot ==
    /\ \/ /\ producer.pc = "invalidate"
          /\ StoreSequence(0, "value")
       \/ /\ producer.pc = "value"
          /\ StoreValue("publish")
       \/ /\ producer.pc = "publish"
          /\ StoreSequence(producer.at + 1, "next")
       \/ /\ May("weak")
          /\ producer.pc = "invalidate"
          /\ StoreValue("late")
       \/ /\ producer.pc = "late"
          /\ StoreSequence(0, "publish")
    /\ UNCHANGED <<wrote, readAt, feeder, heard, audible, repeated, world>>

\* The next sample of the buffer, or the buffer is complete.
NextSample ==
    /\ producer.pc = "next"
    /\ LET last == producer.at + 1 = wrote + producer.total
       IN  /\ producer' = IF last THEN IdleProducer
                          ELSE [producer EXCEPT !.pc = "invalidate", !.at = @ + 1]
           /\ wrote' = IF last THEN wrote + producer.total ELSE wrote
    /\ UNCHANGED <<slots, readAt, feeder, heard, audible, repeated, world>>

(***************************************************************************)
(* The consumer: one frame of feed_appsrc.                                 *)
(***************************************************************************)
\* Not muted: pop_slice loads both positions.
Pop ==
    /\ feeder.pc = "idle"
    /\ feeder' = [feeder EXCEPT !.pc = "claim", !.read = readAt]
    /\ UNCHANGED <<slots, wrote, readAt, producer, heard, audible, repeated, world>>

\* The number of samples there are, bounded by the frame and by the ring.
Available == Smaller(Frame, Smaller(Monus(wrote, feeder.read), Capacity))

\* pop_slice loads the write position, then exchanges the read position.
Count ==
    /\ feeder.pc = "claim"
    /\ feeder' = IF Available = 0 THEN IdleFeeder
                 ELSE [feeder EXCEPT !.pc = "exchange", !.count = Available]
    /\ UNCHANGED <<slots, wrote, readAt, producer, heard, audible, repeated, world>>

Claim ==
    /\ feeder.pc = "exchange"
    /\ \/ /\ readAt = feeder.read
          /\ readAt' = feeder.read + feeder.count
          /\ feeder' = [feeder EXCEPT !.pc = "before", !.at = feeder.read]
       \/ /\ readAt # feeder.read
          /\ feeder' = [feeder EXCEPT !.pc = "claim", !.read = readAt]
          /\ UNCHANGED readAt
    /\ UNCHANGED <<slots, wrote, producer, heard, audible, repeated, world>>

\* A sample leaves the ring: silence when the slot's sequence changed.
Emit(valid, value) ==
    LET sample == IF valid THEN value ELSE 0
        more == feeder.at + 1 < feeder.read + feeder.count
    IN  /\ heard' = [position |-> feeder.at, value |-> sample]
        /\ repeated' = (repeated \/ (valid /\ feeder.at < audible))
        /\ audible' = IF valid THEN feeder.at + 1 ELSE audible
        /\ feeder' = IF more THEN [feeder EXCEPT !.pc = "before", !.at = @ + 1] ELSE IdleFeeder

\* The two loads of the sequence and, between them, the load of the value:
\* relaxed, so it may be satisfied after the second load of the sequence.
ReadSlot ==
    LET slot == slots[Slot(feeder.at)]
        expected == feeder.at + 1
    IN  /\ \/ /\ feeder.pc = "before"
              /\ feeder' = [feeder EXCEPT !.pc = "value", !.before = slot.sequence]
              /\ UNCHANGED <<heard, audible, repeated>>
           \/ /\ feeder.pc = "value"
              /\ feeder' = [feeder EXCEPT !.pc = "after", !.value = slot.value]
              /\ UNCHANGED <<heard, audible, repeated>>
           \/ /\ feeder.pc = "after"
              /\ Emit(feeder.before = expected /\ slot.sequence = expected, feeder.value)
           \/ /\ May("weak")
              /\ feeder.pc = "value"
              /\ feeder' = [feeder EXCEPT !.pc = "late", !.value = slot.sequence]
              /\ UNCHANGED <<heard, audible, repeated>>
           \/ /\ feeder.pc = "late"
              /\ Emit(feeder.before = expected /\ feeder.value = expected, slot.value)
        /\ UNCHANGED <<slots, wrote, readAt, producer, world>>

\* Muted: clear() loads the write position and then stores it as the read
\* position, without an exchange.
Clear ==
    /\ May("mute")
    /\ \/ /\ feeder.pc = "idle"
          /\ feeder' = [feeder EXCEPT !.pc = "clear", !.read = wrote]
          /\ UNCHANGED readAt
       \/ /\ feeder.pc = "clear"
          /\ readAt' = feeder.read
          /\ feeder' = IdleFeeder
    /\ UNCHANGED <<slots, wrote, producer, heard, audible, repeated, world>>

Next ==
    \/ \E total \in Batches : Push(total)
    \/ DropStale
    \/ WriteSlot
    \/ NextSample
    \/ Pop
    \/ Count
    \/ Claim
    \/ ReadSlot
    \/ Clear

Spec == Init /\ [][Next]_vars

(***************************************************************************)
(* Properties.                                                             *)
(***************************************************************************)
\* What AudioRing's comment promises of a consumer that races an overwrite
\* ("sequence validation turns a raced sample into silence rather than
\* exposing torn/stale audio"): the sample popped at a position is silence or
\* the sample that was pushed there.
NoStaleAudio == heard.value \in {0, heard.position + 1}

\* The promise holds wherever the accesses take effect in program order: the
\* feeder may be overtaken by any number of buffers between any two loads.
OrderedNeverStale == ~May("weak") => NoStaleAudio

\* The producer dropping stale samples, the feeder claiming a frame and the
\* mute path clearing the ring all move the read position; no interleaving of
\* them makes the feeder play a sample twice or go back to an older one.
NeverHeardTwice == ~repeated

\* The two together.
RingSound == OrderedNeverStale /\ NeverHeardTwice
=============================================================================
