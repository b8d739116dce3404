---------------------------- MODULE RingProofs ----------------------------
(***************************************************************************)
(* The audio ring is sound for every capacity, frame length and size of    *)
(* the captured buffers, and for any number of samples: where accesses     *)
(* take effect in program order no stale sample is played, and no sample   *)
(* is ever played twice or out of order, muting included.                  *)
(***************************************************************************)
EXTENDS AudioRing, TLAPS

-----------------------------------------------------------------------------
\* The inductive invariant.

Indices == 0..(Capacity - 1)
Rings == [Indices -> [value: Nat, sequence: Nat]]
Producers == [pc: {"idle", "drop", "invalidate", "value", "publish", "late", "next"},
              total: Nat, read: Nat, at: Nat]
Feeders == [pc: {"idle", "claim", "exchange", "before", "value", "after", "late", "clear"},
            read: Nat, count: Nat, at: Nat, before: Nat, value: Nat]
TypeOK ==
    /\ slots \in Rings
    /\ wrote \in Nat /\ readAt \in Nat /\ audible \in Nat
    /\ producer \in Producers
    /\ feeder \in Feeders
    /\ heard \in [position: Nat, value: Nat]
    /\ repeated \in BOOLEAN

\* Positions: nothing was played at or after the position the feeder takes
\* its next sample from, nor at or after the write position.
Reading == feeder.pc \in {"before", "value", "after", "late"}
PositionInv ==
    /\ audible <= wrote
    /\ ~Reading => audible <= readAt
    /\ feeder.pc \in {"claim", "exchange", "clear"} => audible <= feeder.read
    /\ feeder.pc = "exchange" => 0 < feeder.count
    /\ feeder.pc = "exchange" \/ Reading => feeder.read + feeder.count <= wrote
    /\ Reading =>
          /\ audible <= feeder.at
          /\ feeder.at < feeder.read + feeder.count
          /\ feeder.read + feeder.count <= readAt
    /\ feeder.pc = "clear" => feeder.read <= wrote
    /\ ~repeated

\* The producer writes its buffer's positions upwards; Frontier is the first
\* position it has not published yet.
Frontier ==
    CASE producer.pc = "idle" -> wrote
      [] producer.pc = "next" -> producer.at + 1
      [] OTHER -> producer.at
ProducerInv ==
    producer.pc # "idle" => wrote <= producer.at /\ producer.at < wrote + producer.total

\* In program order: a slot with a sequence holds that sequence's sample, no
\* slot is ahead of the frontier, and the slot being written has no sequence.
SlotInv ==
    /\ producer.pc # "late" /\ feeder.pc # "late"
    /\ \A i \in Indices :
          /\ slots[i].sequence # 0 => slots[i].value = slots[i].sequence
          /\ slots[i].sequence <= Frontier
    /\ producer.pc \in {"value", "publish"} => slots[Slot(producer.at)].sequence = 0
    /\ producer.pc = "publish" => slots[Slot(producer.at)].value = producer.at + 1
    /\ feeder.pc \in {"value", "after"} /\ feeder.before = feeder.at + 1 => feeder.at < Frontier
    /\ feeder.pc = "after" /\ feeder.before = feeder.at + 1
          /\ slots[Slot(feeder.at)].sequence = feeder.at + 1 => feeder.value = feeder.at + 1
    /\ NoStaleAudio

IInv ==
    /\ TypeOK
    /\ PositionInv
    /\ ProducerInv
    /\ ~May("weak") => SlotInv

-----------------------------------------------------------------------------
\* A position's slot is one of the ring's.
LEMMA SlotInRange == \A position \in Nat : Slot(position) \in Indices
  BY RingAssumption DEF Slot, Indices

\* The threads between two calls are typed.
LEMMA IdleTyped == IdleProducer \in Producers /\ IdleFeeder \in Feeders
  BY Zenon DEF IdleProducer, IdleFeeder, Producers, Feeders

\* The ring starts typed.
LEMMA TypeInit == Init => TypeOK
  <1> SUFFICES ASSUME Init PROVE TypeOK
    BY Zenon
  <1>1. slots \in Rings
    BY RingAssumption, Zenon DEF Init, Rings, Indices
  <1>2. heard \in [position: Nat, value: Nat]
    BY Zenon DEF Init
  <1> QED BY <1>1, <1>2, IdleTyped, Zenon DEF Init, TypeOK

\* Storing a sequence or a value changes the slot of the producer's position.
LEMMA StoreFacts ==
    ASSUME TypeOK, NEW s \in Nat,
           NEW pc \in {"idle", "drop", "invalidate", "value", "publish", "late", "next"},
           StoreSequence(s, pc) \/ StoreValue(pc)
    PROVE  /\ slots' \in Rings
           /\ producer' \in Producers
           /\ producer'.pc = pc /\ producer'.at = producer.at
           /\ producer'.total = producer.total
           /\ StoreSequence(s, pc) =>
                /\ slots'[Slot(producer.at)].sequence = s
                /\ slots'[Slot(producer.at)].value = slots[Slot(producer.at)].value
           /\ StoreValue(pc) =>
                /\ slots'[Slot(producer.at)].value = producer.at + 1
                /\ slots'[Slot(producer.at)].sequence = slots[Slot(producer.at)].sequence
           /\ \A i \in Indices : i # Slot(producer.at) => slots'[i] = slots[i]
  <1>1. Slot(producer.at) \in Indices /\ slots \in Rings /\ producer \in Producers
    BY SlotInRange, Zenon DEF TypeOK, Producers
  <1>2. /\ producer' \in Producers
        /\ producer'.pc = pc /\ producer'.at = producer.at
        /\ producer'.total = producer.total
    BY <1>1, Zenon DEF StoreSequence, StoreValue, Producers
  <1>3. CASE StoreSequence(s, pc) /\ ~StoreValue(pc)
    BY <1>1, <1>2, <1>3 DEF Rings, StoreSequence
  <1>4. CASE StoreValue(pc)
    <2>1. producer.at + 1 \in Nat
      BY <1>1 DEF Producers
    <2>2. /\ slots' \in Rings
          /\ slots'[Slot(producer.at)].value = producer.at + 1
          /\ slots'[Slot(producer.at)].sequence = slots[Slot(producer.at)].sequence
          /\ \A i \in Indices : i # Slot(producer.at) => slots'[i] = slots[i]
      BY <1>1, <1>4, <2>1, Zenon DEF Rings, StoreValue
    <2>3. ASSUME StoreSequence(s, pc)
          PROVE  /\ slots'[Slot(producer.at)].sequence = s
                 /\ slots'[Slot(producer.at)].value = slots[Slot(producer.at)].value
      BY <1>1, <2>3, Zenon DEF Rings, StoreSequence
    <2> QED BY <1>2, <2>2, <2>3, Zenon
  <1> QED BY <1>3, <1>4, Zenon

\* A sample leaves the ring.
LEMMA EmitFacts ==
    ASSUME TypeOK, NEW valid \in BOOLEAN, NEW value \in Nat, Emit(valid, value)
    PROVE  /\ feeder' \in Feeders
           /\ heard' \in [position: Nat, value: Nat]
           /\ heard'.position = feeder.at
           /\ heard'.value = IF valid THEN value ELSE 0
           /\ audible' = IF valid THEN feeder.at + 1 ELSE audible
           /\ repeated' = (repeated \/ (valid /\ feeder.at < audible))
           /\ \/ /\ feeder.at + 1 < feeder.read + feeder.count
                 /\ feeder'.pc = "before" /\ feeder'.at = feeder.at + 1
                 /\ feeder'.read = feeder.read /\ feeder'.count = feeder.count
              \/ /\ ~(feeder.at + 1 < feeder.read + feeder.count)
                 /\ feeder' = IdleFeeder
  <1>1. feeder \in Feeders
    BY Zenon DEF TypeOK
  <1>2. CASE feeder.at + 1 < feeder.read + feeder.count
    <2>1. feeder' = [feeder EXCEPT !.pc = "before", !.at = @ + 1]
      BY <1>2, Zenon DEF Emit
    <2>2. /\ feeder' \in Feeders
          /\ feeder'.pc = "before" /\ feeder'.at = feeder.at + 1
          /\ feeder'.read = feeder.read /\ feeder'.count = feeder.count
      <3>1. feeder.at + 1 \in Nat
        BY <1>1 DEF Feeders
      <3>2. ASSUME NEW n \in Nat, feeder' = [feeder EXCEPT !.pc = "before", !.at = n]
            PROVE  /\ feeder' \in Feeders
                   /\ feeder'.pc = "before" /\ feeder'.at = n
                   /\ feeder'.read = feeder.read /\ feeder'.count = feeder.count
        BY <1>1, <3>2, Zenon DEF Feeders
      <3> QED BY <2>1, <3>1, <3>2, Zenon
    <2>3. feeder.at \in Nat /\ (IF valid THEN value ELSE 0) \in Nat
      BY <1>1, Zenon DEF Feeders
    <2>4. /\ heard' = [position |-> feeder.at, value |-> IF valid THEN value ELSE 0]
          /\ audible' = IF valid THEN feeder.at + 1 ELSE audible
          /\ repeated' = (repeated \/ (valid /\ feeder.at < audible))
      BY Zenon DEF Emit
    <2> QED BY <1>2, <2>2, <2>3, <2>4, Zenon
  <1>3. CASE ~(feeder.at + 1 < feeder.read + feeder.count)
    <2>1. feeder' = IdleFeeder
      BY <1>3, Zenon DEF Emit
    <2>2. feeder.at \in Nat /\ (IF valid THEN value ELSE 0) \in Nat
      BY <1>1, Zenon DEF Feeders
    <2> QED BY <1>3, <2>1, <2>2, IdleTyped, Zenon DEF Emit
  <1> QED BY <1>2, <1>3, Zenon

\* What a step of the feeder at a slot is.
LEMMA ReadFacts ==
    ASSUME TypeOK, ReadSlot
    PROVE  /\ slots[Slot(feeder.at)] \in [value: Nat, sequence: Nat]
           /\ UNCHANGED <<slots, wrote, readAt, producer, world>>
           /\ Reading
           /\ \/ /\ feeder.pc = "before"
                 /\ feeder' = [feeder EXCEPT !.pc = "value", !.before = slots[Slot(feeder.at)].sequence]
                 /\ UNCHANGED <<heard, audible, repeated>>
              \/ /\ feeder.pc = "value"
                 /\ feeder' = [feeder EXCEPT !.pc = "after", !.value = slots[Slot(feeder.at)].value]
                 /\ UNCHANGED <<heard, audible, repeated>>
              \/ /\ feeder.pc = "after"
                 /\ Emit(feeder.before = feeder.at + 1
                           /\ slots[Slot(feeder.at)].sequence = feeder.at + 1, feeder.value)
              \/ /\ May("weak")
                 /\ feeder.pc = "value"
                 /\ feeder' = [feeder EXCEPT !.pc = "late", !.value = slots[Slot(feeder.at)].sequence]
                 /\ UNCHANGED <<heard, audible, repeated>>
              \/ /\ feeder.pc = "late"
                 /\ Emit(feeder.before = feeder.at + 1 /\ feeder.value = feeder.at + 1,
                         slots[Slot(feeder.at)].value)
  <1>1. slots[Slot(feeder.at)] \in [value: Nat, sequence: Nat]
    BY SlotInRange, Zenon DEF TypeOK, Rings, Feeders
  <1> QED BY <1>1, Zenon DEF ReadSlot, Reading

\* Every step of either thread keeps the types.
LEMMA TypeStep == TypeOK /\ [Next]_vars => TypeOK'
  <1> SUFFICES ASSUME TypeOK, [Next]_vars PROVE TypeOK'
    BY Zenon
  <1> USE RingAssumption
  <1>0. CASE UNCHANGED vars
    BY <1>0, Zenon DEF vars, ringVars, TypeOK
  <1>1. ASSUME NEW total \in Batches, Push(total) PROVE TypeOK'
    <2>1. total \in Nat /\ wrote + Skip(total) \in Nat /\ readAt \in Nat
      BY DEF TypeOK, Skip, Monus
    <2>2. producer' \in Producers
      BY <1>1, <2>1, Zenon DEF Push, Producers
    <2> QED BY <1>1, <2>2, Zenon DEF Push, TypeOK
  <1>2. CASE DropStale
    <2>1. MinimumRead \in Nat
      BY DEF TypeOK, Producers, MinimumRead, Monus
    <2>2. producer' \in Producers
      BY <1>2, Zenon DEF DropStale, TypeOK, Producers
    <2> QED BY <1>2, <2>1, <2>2, Zenon DEF DropStale, TypeOK
  <1>3. CASE WriteSlot
    <2>1. producer.at + 1 \in Nat
      BY DEF TypeOK, Producers
    <2>2. \/ StoreSequence(0, "value") \/ StoreSequence(producer.at + 1, "next")
          \/ StoreSequence(0, "publish") \/ StoreValue("publish") \/ StoreValue("late")
      BY <1>3, Zenon DEF WriteSlot
    <2>3. slots' \in Rings /\ producer' \in Producers
      BY <2>1, <2>2, StoreFacts, Zenon
    <2> QED BY <1>3, <2>3, Zenon DEF WriteSlot, TypeOK
  <1>4. CASE NextSample
    <2>1. producer' \in Producers
      <3>1. producer.at + 1 \in Nat
        BY DEF TypeOK, Producers
      <3>2. ASSUME NEW n \in Nat PROVE [producer EXCEPT !.pc = "invalidate", !.at = n] \in Producers
        BY Zenon DEF TypeOK, Producers
      <3> QED BY <1>4, <3>1, <3>2, IdleTyped, Zenon DEF NextSample
    <2>2. wrote' \in Nat
      BY <1>4 DEF NextSample, TypeOK, Producers
    <2> QED BY <1>4, <2>1, <2>2, Zenon DEF NextSample, TypeOK
  <1>5. CASE Pop
    <2>1. feeder' \in Feeders
      BY <1>5, Zenon DEF Pop, TypeOK, Feeders
    <2> QED BY <1>5, <2>1, Zenon DEF Pop, TypeOK
  <1>6. CASE Count
    <2>1. Available \in Nat
      BY DEF TypeOK, Available, Smaller, Monus, Feeders
    <2>2. feeder' \in Feeders
      BY <1>6, <2>1, IdleTyped, Zenon DEF Count, TypeOK, Feeders
    <2> QED BY <1>6, <2>2, Zenon DEF Count, TypeOK
  <1>7. CASE Claim
    <2>1. feeder' \in Feeders
      BY <1>7, ZenonT(40) DEF Claim, TypeOK, Feeders
    <2>2. readAt' \in Nat
      BY <1>7 DEF Claim, TypeOK, Feeders
    <2> QED BY <1>7, <2>1, <2>2, Zenon DEF Claim, TypeOK
  <1>8. CASE ReadSlot
    <2> DEFINE slot == slots[Slot(feeder.at)]
    <2>1. slot \in [value: Nat, sequence: Nat] /\ UNCHANGED <<slots, wrote, readAt, producer>>
      BY <1>8, ReadFacts, Zenon
    <2>2. feeder.value \in Nat
      BY Zenon DEF TypeOK, Feeders
    <2>3. CASE \E valid \in BOOLEAN, value \in Nat : Emit(valid, value)
      <3>1. PICK valid \in BOOLEAN, value \in Nat : Emit(valid, value)
        BY <2>3, Zenon
      <3>2. audible' \in Nat /\ repeated' \in BOOLEAN
        BY <3>1, EmitFacts DEF TypeOK, Feeders
      <3> QED BY <2>1, <3>1, <3>2, EmitFacts, Zenon DEF TypeOK
    <2>4. CASE feeder' \in Feeders /\ UNCHANGED <<heard, audible, repeated>>
      BY <2>1, <2>4, Zenon DEF TypeOK
    <2>5. /\ [feeder EXCEPT !.pc = "value", !.before = slot.sequence] \in Feeders
          /\ [feeder EXCEPT !.pc = "after", !.value = slot.value] \in Feeders
          /\ [feeder EXCEPT !.pc = "late", !.value = slot.sequence] \in Feeders
      BY <2>1, Zenon DEF TypeOK, Feeders
    <2> QED BY <1>8, <2>1, <2>2, <2>3, <2>4, <2>5, ReadFacts, Zenon
  <1>9. CASE Clear
    <2>1. feeder' \in Feeders
      BY <1>9, IdleTyped, Zenon DEF Clear, TypeOK, Feeders
    <2>2. readAt' \in Nat
      BY <1>9, Zenon DEF Clear, TypeOK, Feeders
    <2> QED BY <1>9, <2>1, <2>2, Zenon DEF Clear, TypeOK
  <1> QED BY <1>0, <1>1, <1>2, <1>3, <1>4, <1>5, <1>6, <1>7, <1>8, <1>9, Zenon DEF Next

\* The numbers of the state.
LEMMA Numbers ==
    ASSUME TypeOK
    PROVE  /\ wrote \in Nat /\ readAt \in Nat /\ audible \in Nat
           /\ producer.total \in Nat /\ producer.read \in Nat /\ producer.at \in Nat
           /\ feeder.read \in Nat /\ feeder.count \in Nat /\ feeder.at \in Nat
           /\ feeder.before \in Nat /\ feeder.value \in Nat
           /\ Capacity \in Nat \ {0} /\ Frame \in Nat \ {0}
  BY RingAssumption, Zenon DEF TypeOK, Producers, Feeders

\* Where the threads are between two calls.
LEMMA IdlePcs == IdleFeeder.pc = "idle" /\ IdleProducer.pc = "idle"
  BY Zenon DEF IdleFeeder, IdleProducer

-----------------------------------------------------------------------------
\* Positions.

\* The producer stays inside the buffer it was given.
LEMMA ProducerStep ==
    ASSUME TypeOK, ProducerInv, [Next]_vars
    PROVE  ProducerInv'
  <1> USE Numbers, IdlePcs
  <1>1. ASSUME NEW total \in Batches, Push(total) PROVE ProducerInv'
    <2>1. total \in Nat \ {0}
      BY RingAssumption, Zenon
    <2>2. producer'.at = wrote + Skip(total) /\ producer'.total = total /\ wrote' = wrote
      BY <1>1, Zenon DEF Push
    <2>3. Skip(total) \in Nat /\ Skip(total) < total
      BY <2>1 DEF Skip, Monus
    <2> QED BY <2>1, <2>2, <2>3 DEF ProducerInv
  <1>2. CASE DropStale
    <2>1. /\ producer'.at = producer.at /\ producer'.total = producer.total
          /\ wrote' = wrote /\ producer.pc # "idle"
      BY <1>2, Zenon DEF DropStale, TypeOK, Producers
    <2> QED BY <2>1, Zenon DEF ProducerInv
  <1>3. CASE WriteSlot
    <2>1. \/ StoreSequence(0, "value") \/ StoreSequence(producer.at + 1, "next")
          \/ StoreSequence(0, "publish") \/ StoreValue("publish") \/ StoreValue("late")
      BY <1>3, Zenon DEF WriteSlot
    <2>2. producer'.at = producer.at /\ producer'.total = producer.total
      BY <2>1, StoreFacts
    <2>3. wrote' = wrote /\ producer.pc # "idle"
      BY <1>3, Zenon DEF WriteSlot
    <2> QED BY <2>2, <2>3, Zenon DEF ProducerInv
  <1>4. CASE NextSample
    <2>1. CASE producer.at + 1 = wrote + producer.total
      BY <1>4, <2>1, Zenon DEF NextSample, ProducerInv
    <2>2. CASE producer.at + 1 # wrote + producer.total
      <3>1. /\ producer'.at = producer.at + 1 /\ producer'.total = producer.total
            /\ wrote' = wrote
        BY <1>4, <2>2, Zenon DEF NextSample, TypeOK, Producers
      <3>2. wrote <= producer.at /\ producer.at < wrote + producer.total
        BY <1>4, Zenon DEF NextSample, ProducerInv
      <3> QED BY <2>2, <3>1, <3>2 DEF ProducerInv
    <2> QED BY <2>1, <2>2, Zenon
  <1>5. CASE UNCHANGED <<wrote, producer>>
    BY <1>5, Zenon DEF ProducerInv
  <1> QED BY <1>1, <1>2, <1>3, <1>4, <1>5, Zenon
          DEF Next, Pop, Count, Claim, ReadSlot, Clear, vars, ringVars

\* What the steps of the producer do to the positions.
LEMMA ProducerMoves ==
    ASSUME TypeOK, ProducerInv,
           (\E total \in Batches : Push(total)) \/ DropStale \/ WriteSlot \/ NextSample
    PROVE  /\ UNCHANGED <<feeder, heard, audible, repeated, world>>
           /\ wrote <= wrote' /\ readAt <= readAt'
  <1> USE Numbers
  <1>1. UNCHANGED <<feeder, heard, audible, repeated, world>>
    BY Zenon DEF Push, DropStale, WriteSlot, NextSample
  <1>2. CASE DropStale
    <2>1. MinimumRead \in Nat
      BY DEF MinimumRead, Monus
    <2> QED BY <1>1, <1>2, <2>1 DEF DropStale
  <1>3. CASE NextSample
    BY <1>1, <1>3 DEF NextSample
  <1> QED BY <1>1, <1>2, <1>3 DEF Push, WriteSlot

\* No step of either thread, muting included, moves a position so that a
\* sample could be played again.
LEMMA PositionStep ==
    ASSUME TypeOK, TypeOK', PositionInv, ProducerInv, [Next]_vars
    PROVE  PositionInv'
  <1> USE Numbers, IdlePcs
  <1>0. CASE UNCHANGED vars
    BY <1>0, Zenon DEF vars, ringVars, PositionInv, Reading
  <1>1. CASE (\E total \in Batches : Push(total)) \/ DropStale \/ WriteSlot \/ NextSample
    <2>1. /\ UNCHANGED <<feeder, audible, repeated>>
          /\ wrote <= wrote' /\ readAt <= readAt'
          /\ wrote' \in Nat /\ readAt' \in Nat
      BY <1>1, ProducerMoves, Zenon DEF TypeOK
    <2> QED BY <2>1 DEF PositionInv, Reading
  <1>2. CASE Pop
    <2>1. feeder'.pc = "claim" /\ feeder'.read = readAt
      BY <1>2, Zenon DEF Pop, TypeOK, Feeders
    <2> QED BY <1>2, <2>1, Zenon DEF Pop, PositionInv, Reading
  <1>3. CASE Count
    <2>1. Available \in Nat /\ (Available # 0 => feeder.read + Available <= wrote)
      BY DEF Available, Smaller, Monus
    <2>2. CASE Available = 0
      BY <1>3, <2>2, Zenon DEF Count, PositionInv, Reading
    <2>3. CASE Available # 0
      <3>1. feeder'.pc = "exchange" /\ feeder'.count = Available /\ feeder'.read = feeder.read
        BY <1>3, <2>3, Zenon DEF Count, TypeOK, Feeders
      <3> QED BY <1>3, <2>1, <2>3, <3>1 DEF Count, PositionInv, Reading
    <2> QED BY <2>2, <2>3, Zenon
  <1>4. CASE Claim
    <2>1. CASE readAt = feeder.read /\ readAt' = feeder.read + feeder.count
               /\ feeder' = [feeder EXCEPT !.pc = "before", !.at = feeder.read]
      <3>1. /\ feeder'.pc = "before" /\ feeder'.at = feeder.read
            /\ feeder'.read = feeder.read /\ feeder'.count = feeder.count
        BY <2>1, Zenon DEF TypeOK, Feeders
      <3> QED BY <1>4, <2>1, <3>1 DEF Claim, PositionInv, Reading
    <2>2. CASE feeder' = [feeder EXCEPT !.pc = "claim", !.read = readAt] /\ UNCHANGED readAt
      <3>1. feeder'.pc = "claim" /\ feeder'.read = readAt
        BY <2>2, Zenon DEF TypeOK, Feeders
      <3> QED BY <1>4, <2>2, <3>1, Zenon DEF Claim, PositionInv, Reading
    <2> QED BY <1>4, <2>1, <2>2, Zenon DEF Claim
  <1>5. CASE ReadSlot
    <2>1. Reading /\ UNCHANGED <<wrote, readAt>>
      BY <1>5, ReadFacts, Zenon
    <2>2. ASSUME NEW valid \in BOOLEAN, NEW value \in Nat, Emit(valid, value)
          PROVE  PositionInv'
      <3>1. audible <= feeder.at /\ feeder.at < feeder.read + feeder.count
            /\ feeder.read + feeder.count <= readAt /\ feeder.read + feeder.count <= wrote
        BY <2>1, Zenon DEF PositionInv
      <3>2. audible' <= feeder.at + 1 /\ ~repeated'
        <4>1. /\ audible' = IF valid THEN feeder.at + 1 ELSE audible
              /\ repeated' = (repeated \/ (valid /\ feeder.at < audible))
          BY <2>2, EmitFacts, Zenon
        <4>2. audible' <= feeder.at + 1 /\ ~(feeder.at < audible)
          BY <3>1, <4>1
        <4> QED BY <4>1, <4>2, Zenon DEF PositionInv
      <3>3. CASE /\ feeder.at + 1 < feeder.read + feeder.count
                 /\ feeder'.pc = "before" /\ feeder'.at = feeder.at + 1
                 /\ feeder'.read = feeder.read /\ feeder'.count = feeder.count
        BY <2>1, <3>1, <3>2, <3>3 DEF TypeOK, PositionInv, Reading
      <3>4. CASE feeder' = IdleFeeder
        BY <2>1, <3>1, <3>2, <3>4 DEF TypeOK, PositionInv, Reading
      <3> QED BY <2>2, <3>3, <3>4, EmitFacts, Zenon
    <2>3. ASSUME NEW n \in Nat, UNCHANGED <<audible, repeated>>,
                 \/ feeder' = [feeder EXCEPT !.pc = "value", !.before = n]
                 \/ feeder' = [feeder EXCEPT !.pc = "after", !.value = n]
                 \/ feeder' = [feeder EXCEPT !.pc = "late", !.value = n]
          PROVE  PositionInv'
      <3>1. /\ feeder'.pc \in {"value", "after", "late"} /\ feeder'.at = feeder.at
            /\ feeder'.read = feeder.read /\ feeder'.count = feeder.count
        BY <2>3, Zenon DEF TypeOK, Feeders
      <3> QED BY <2>1, <2>3, <3>1, Zenon DEF PositionInv, Reading
    <2> QED BY <1>5, <2>2, <2>3, ReadFacts, Zenon
  <1>6. CASE Clear
    <2>1. CASE feeder.pc = "idle" /\ feeder' = [feeder EXCEPT !.pc = "clear", !.read = wrote]
               /\ UNCHANGED readAt
      <3>1. feeder'.pc = "clear" /\ feeder'.read = wrote
        BY <2>1, Zenon DEF TypeOK, Feeders
      <3> QED BY <1>6, <2>1, <3>1 DEF Clear, PositionInv, Reading
    <2>2. CASE feeder.pc = "clear" /\ readAt' = feeder.read /\ feeder' = IdleFeeder
      BY <1>6, <2>2, Zenon DEF Clear, PositionInv, Reading
    <2> QED BY <1>6, <2>1, <2>2, Zenon DEF Clear
  <1> QED BY <1>0, <1>1, <1>2, <1>3, <1>4, <1>5, <1>6, Zenon DEF Next

-----------------------------------------------------------------------------
\* Slots, in program order.

\* A step that moves the frontier up and leaves the slots and the feeder alone.
LEMMA FrontierMoves ==
    ASSUME SlotInv, TypeOK, UNCHANGED <<slots, feeder, heard>>,
           Frontier \in Nat, Frontier' \in Nat, Frontier <= Frontier',
           producer'.pc \notin {"late", "value", "publish"}
    PROVE  SlotInv'
  <1>1. \A i \in Indices : slots[i].sequence \in Nat
    BY Zenon DEF TypeOK, Rings
  <1> QED BY <1>1, Numbers DEF SlotInv, NoStaleAudio

\* A step of the producer keeps what the slots hold.
LEMMA SlotStepProducer ==
    ASSUME TypeOK, ProducerInv, SlotInv, ~May("weak"),
           (\E total \in Batches : Push(total)) \/ DropStale \/ WriteSlot \/ NextSample
    PROVE  SlotInv'
  <1> USE Numbers, IdlePcs
  <1>0. Frontier \in Nat
    BY DEF Frontier
  <1>1. ASSUME NEW total \in Batches, Push(total) PROVE SlotInv'
    <2>1. total \in Nat /\ Skip(total) \in Nat
      BY RingAssumption DEF Skip, Monus
    <2>2. Frontier = wrote /\ Frontier' = wrote + Skip(total) /\ producer'.pc = "drop"
      BY <1>1, Zenon DEF Push, Frontier
    <2>3. wrote <= wrote + Skip(total) /\ wrote + Skip(total) \in Nat
      BY <2>1
    <2>4. UNCHANGED <<slots, feeder, heard>>
      BY <1>1, Zenon DEF Push
    <2> QED BY <1>0, <2>2, <2>3, <2>4, FrontierMoves, Zenon
  <1>2. CASE DropStale
    <2>1. producer'.pc \in {"drop", "invalidate"} /\ producer'.at = producer.at
      BY <1>2, Zenon DEF DropStale, TypeOK, Producers
    <2>2. Frontier' = Frontier
      BY <1>2, <2>1, Zenon DEF DropStale, Frontier
    <2>3. UNCHANGED <<slots, feeder, heard>>
      BY <1>2, Zenon DEF DropStale
    <2> QED BY <1>0, <2>1, <2>2, <2>3, FrontierMoves
  <1>3. CASE NextSample
    <2>1. CASE producer.at + 1 = wrote + producer.total
      <3>1. producer' = IdleProducer /\ wrote' = producer.at + 1 /\ UNCHANGED <<slots, feeder, heard>>
        BY <1>3, <2>1, Zenon DEF NextSample
      <3>2. Frontier' = Frontier
        BY <1>3, <3>1, Zenon DEF NextSample, Frontier
      <3> QED BY <1>0, <3>1, <3>2, FrontierMoves
    <2>2. CASE producer.at + 1 # wrote + producer.total
      <3>1. /\ producer'.pc = "invalidate" /\ producer'.at = producer.at + 1
            /\ UNCHANGED <<slots, feeder, heard>>
        BY <1>3, <2>2, Zenon DEF NextSample, TypeOK, Producers
      <3>2. Frontier' = Frontier
        BY <1>3, <3>1, Zenon DEF NextSample, Frontier
      <3> QED BY <1>0, <3>1, <3>2, FrontierMoves
    <2> QED BY <2>1, <2>2, Zenon
  <1>4. CASE WriteSlot
    <2> DEFINE k == Slot(producer.at)
    <2>1. /\ k \in Indices /\ Slot(feeder.at) \in Indices
          /\ \A i \in Indices : slots[i].sequence \in Nat /\ slots[i].value \in Nat
      BY SlotInRange, Zenon DEF TypeOK, Rings
    <2>2. UNCHANGED <<feeder, heard>>
      BY <1>4, Zenon DEF WriteSlot
    <2>3. CASE producer.pc = "invalidate" /\ StoreSequence(0, "value")
      <3>1. /\ producer'.pc = "value" /\ producer'.at = producer.at
            /\ slots'[k].sequence = 0
            /\ \A i \in Indices : i # k => slots'[i] = slots[i]
        BY <2>3, StoreFacts, Zenon
      <3>2. Frontier' = Frontier
        BY <2>3, <3>1, Zenon DEF Frontier
      <3>3. Slot(producer'.at) = k
        BY <3>1, Zenon
      <3> HIDE DEF k
      <3>4. \A i \in Indices :
               /\ slots'[i].sequence # 0 => slots'[i].value = slots'[i].sequence
               /\ slots'[i].sequence <= Frontier'
        BY <1>0, <2>1, <3>1, <3>2 DEF SlotInv
      <3>5. slots'[Slot(feeder.at)].sequence = feeder.at + 1 =>
               slots[Slot(feeder.at)].sequence = feeder.at + 1
        BY <2>1, <3>1
      <3> QED BY <2>2, <2>3, <3>1, <3>2, <3>3, <3>4, <3>5, Zenon DEF SlotInv, NoStaleAudio
    <2>4. CASE producer.pc = "value" /\ StoreValue("publish")
      <3>1. /\ producer'.pc = "publish" /\ producer'.at = producer.at
            /\ slots'[k].sequence = slots[k].sequence /\ slots'[k].value = producer.at + 1
            /\ \A i \in Indices : i # k => slots'[i] = slots[i]
        BY <2>4, StoreFacts, Zenon
      <3>2. Frontier' = Frontier
        BY <2>4, <3>1, Zenon DEF Frontier
      <3>3. Slot(producer'.at) = k /\ slots[k].sequence = 0
        BY <2>4, <3>1, Zenon DEF SlotInv
      <3> HIDE DEF k
      <3>4. \A i \in Indices :
               /\ slots'[i].sequence # 0 => slots'[i].value = slots'[i].sequence
               /\ slots'[i].sequence <= Frontier'
        BY <1>0, <2>1, <3>1, <3>2, <3>3, Zenon DEF SlotInv
      <3>5. slots'[Slot(feeder.at)].sequence = slots[Slot(feeder.at)].sequence
        BY <2>1, <3>1, Zenon
      <3> QED BY <2>2, <2>4, <3>1, <3>2, <3>3, <3>4, <3>5, Zenon DEF SlotInv, NoStaleAudio
    <2>5. CASE producer.pc = "publish" /\ StoreSequence(producer.at + 1, "next")
      <3>1. /\ producer'.pc = "next" /\ producer'.at = producer.at
            /\ slots'[k].sequence = producer.at + 1 /\ slots'[k].value = slots[k].value
            /\ \A i \in Indices : i # k => slots'[i] = slots[i]
        BY <2>5, StoreFacts
      <3>2. Frontier' = producer.at + 1 /\ Frontier = producer.at
        BY <2>5, <3>1, Zenon DEF Frontier
      <3>3. slots[k].value = producer.at + 1
        BY <2>5, Zenon DEF SlotInv
      <3> HIDE DEF k
      <3>4. \A i \in Indices :
               /\ slots'[i].sequence # 0 => slots'[i].value = slots'[i].sequence
               /\ slots'[i].sequence <= Frontier'
        BY <1>0, <2>1, <3>1, <3>2, <3>3 DEF SlotInv
      <3>5. ASSUME feeder.at < Frontier
            PROVE  slots'[Slot(feeder.at)].sequence = feeder.at + 1 =>
                      slots[Slot(feeder.at)].sequence = feeder.at + 1
        BY <2>1, <3>1, <3>2, <3>5
      <3>6. feeder.at < Frontier => feeder.at < Frontier'
        BY <3>2
      <3> QED BY <2>2, <2>5, <3>1, <3>2, <3>4, <3>5, <3>6, Zenon DEF SlotInv, NoStaleAudio
    <2> QED BY <1>4, <2>3, <2>4, <2>5, Zenon DEF WriteSlot, SlotInv
  <1> QED BY <1>1, <1>2, <1>3, <1>4, Zenon

\* A step of the feeder keeps what it has read of a slot true.
LEMMA SlotStepFeeder ==
    ASSUME TypeOK, SlotInv, ~May("weak"), Pop \/ Count \/ Claim \/ ReadSlot \/ Clear
    PROVE  SlotInv'
  <1> USE Numbers, IdlePcs
  <1>1. UNCHANGED <<slots, producer, wrote>> /\ Frontier' = Frontier /\ Frontier \in Nat
    BY DEF Pop, Count, Claim, ReadSlot, Clear, Frontier
  <1>2. ASSUME feeder'.pc \notin {"value", "after", "late"}, NoStaleAudio' PROVE SlotInv'
    BY <1>1, <1>2, Zenon DEF SlotInv
  <1>3. CASE Pop \/ Count \/ Claim \/ Clear
    <2>1. heard' = heard
      BY <1>3, Zenon DEF Pop, Count, Claim, Clear
    <2>2. feeder'.pc \in {"idle", "claim", "exchange", "before", "clear"}
      BY <1>3, Zenon DEF Pop, Count, Claim, Clear, TypeOK, Feeders
    <2> QED BY <1>2, <2>1, <2>2, Zenon DEF SlotInv, NoStaleAudio
  <1>4. CASE ReadSlot
    <2> DEFINE slot == slots[Slot(feeder.at)]
    <2>1. slot.sequence \in Nat /\ slot.value \in Nat /\ Slot(feeder.at) \in Indices
      BY <1>4, ReadFacts, SlotInRange, Zenon
    <2>2. /\ slot.sequence # 0 => slot.value = slot.sequence
          /\ slot.sequence <= Frontier
      BY <2>1, Zenon DEF SlotInv
    <2>3. CASE /\ feeder.pc = "before"
               /\ feeder' = [feeder EXCEPT !.pc = "value", !.before = slot.sequence]
               /\ UNCHANGED heard
      <3>1. feeder'.pc = "value" /\ feeder'.before = slot.sequence /\ feeder'.at = feeder.at
        BY <2>3, Zenon DEF TypeOK, Feeders
      <3>2. feeder'.before = feeder'.at + 1 => feeder'.at < Frontier'
        BY <1>1, <2>1, <2>2, <3>1
      <3> QED BY <1>1, <2>3, <3>1, <3>2, Zenon DEF SlotInv, NoStaleAudio
    <2>4. CASE /\ feeder.pc = "value"
               /\ feeder' = [feeder EXCEPT !.pc = "after", !.value = slot.value]
               /\ UNCHANGED heard
      <3>1. /\ feeder'.pc = "after" /\ feeder'.value = slot.value
            /\ feeder'.at = feeder.at /\ feeder'.before = feeder.before
        BY <2>4, Zenon DEF TypeOK, Feeders
      <3>2. slot.sequence = feeder.at + 1 => slot.value = feeder.at + 1
        BY <2>1, <2>2
      <3> QED BY <1>1, <2>4, <3>1, <3>2, Zenon DEF SlotInv, NoStaleAudio
    <2>5. CASE /\ feeder.pc = "after"
               /\ Emit(feeder.before = feeder.at + 1 /\ slot.sequence = feeder.at + 1, feeder.value)
      <3> DEFINE valid == feeder.before = feeder.at + 1 /\ slot.sequence = feeder.at + 1
      <3>1. valid \in BOOLEAN /\ Emit(valid, feeder.value)
        BY <2>5, Zenon
      <3>2. valid => feeder.value = feeder.at + 1
        BY <2>5, Zenon DEF SlotInv
      <3> HIDE DEF valid
      <3>3. NoStaleAudio'
        BY <3>1, <3>2, EmitFacts, Zenon DEF NoStaleAudio
      <3>4. feeder'.pc \in {"before", "idle"}
        BY <3>1, EmitFacts, Zenon
      <3> QED BY <1>2, <3>3, <3>4, Zenon
    <2> QED BY <1>4, <2>3, <2>4, <2>5, ReadFacts, Zenon DEF SlotInv
  <1> QED BY <1>3, <1>4, Zenon

-----------------------------------------------------------------------------
\* The theorem.

\* The inductive invariant holds initially.
LEMMA InvariantInit == Init => IInv
  <1> SUFFICES ASSUME Init PROVE IInv
    BY Zenon
  <1>1. TypeOK
    BY TypeInit, Zenon
  <1>2. PositionInv /\ ProducerInv
    BY DEF Init, PositionInv, ProducerInv, Reading, IdleFeeder, IdleProducer
  <1>3. SlotInv
    BY RingAssumption DEF Init, SlotInv, NoStaleAudio, Indices, Frontier, IdleFeeder, IdleProducer
  <1> QED BY <1>1, <1>2, <1>3, Zenon DEF IInv

\* Every step keeps the inductive invariant.
LEMMA InvariantStep == IInv /\ [Next]_vars => IInv'
  <1> SUFFICES ASSUME IInv, [Next]_vars PROVE IInv'
    BY Zenon
  <1>1. TypeOK /\ TypeOK'
    BY TypeStep, Zenon DEF IInv
  <1>2. PositionInv' /\ ProducerInv'
    BY <1>1, PositionStep, ProducerStep, Zenon DEF IInv
  <1>3. world' = world
    BY Zenon DEF vars, Next, Push, DropStale, WriteSlot, NextSample, Pop, Count, Claim, ReadSlot, Clear
  <1>4. ASSUME ~May("weak") PROVE SlotInv'
    <2>1. SlotInv /\ ProducerInv
      BY <1>4, Zenon DEF IInv
    <2>2. CASE UNCHANGED vars
      BY <2>1, <2>2, Zenon DEF vars, ringVars, SlotInv, NoStaleAudio, Frontier
    <2>3. CASE Next
      BY <1>1, <1>4, <2>1, <2>3, SlotStepProducer, SlotStepFeeder, Zenon DEF Next
    <2> QED BY <2>2, <2>3, Zenon
  <1> QED BY <1>1, <1>2, <1>3, <1>4, Zenon DEF IInv, May

\* AudioRing's comment, for every size of the ring, of the frame and of the
\* buffers: a consumer overtaken by the producer plays silence and never
\* another position's sample where accesses take effect in program order, and
\* never plays a sample twice, whatever drops or clears samples meanwhile.
THEOREM RingIsSound == Spec => []RingSound
  <1>1. IInv => RingSound
    BY Zenon DEF IInv, PositionInv, SlotInv, RingSound, OrderedNeverStale, NeverHeardTwice
  <1> QED BY <1>1, InvariantInit, InvariantStep, PTL DEF Spec
=============================================================================
