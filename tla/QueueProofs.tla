---------------------------- MODULE QueueProofs ----------------------------
(***************************************************************************)
(* EventQueue for every set of paths and every cap: the queue stays within *)
(* its cap, last_write never names the wrong event, and nothing is lost    *)
(* without the flag.                                                       *)
(*                                                                         *)
(* The three are inductive together.  LastWriteSound is what makes a       *)
(* coalesced write a queued one (LossReported), and it shows that the one  *)
(* branch of push that pops an event without clearing last_write meets an  *)
(* empty map: that branch runs when no filesystem event is queued.         *)
(***************************************************************************)
EXTENDS EventQueue, WellFoundedInduction, TLAPS

Events == FileEvents \cup ProcessEvents

\* The parts of TypeOK and of the other invariants, for a queue value.
QueueType(q) ==
    /\ q \in [events : Seq(Events), last : [Paths -> 0..QueueCap], lost : BOOLEAN]
    /\ Len(q.events) <= QueueCap

Sound(q) ==
    \A p \in Paths :
        q.last[p] # 0 =>
            /\ q.last[p] \in 1..Len(q.events)
            /\ q.events[q.last[p]] = Event("write", p, NoPath)

\* The fields of a typed queue.
LEMMA QueueFields ==
    ASSUME NEW q, QueueType(q)
    PROVE  /\ q.events \in Seq(Events) /\ Len(q.events) \in Nat
           /\ Len(q.events) <= QueueCap
           /\ q.last \in [Paths -> 0..QueueCap] /\ q.lost \in BOOLEAN
  BY DEF QueueType

\* A filesystem event has a path, and a write is the event last_write looks for.
LEMMA FileEvent ==
    ASSUME NEW e \in Events
    PROVE  /\ is_filesystem(e) => e \in FileEvents /\ e.path \in Paths
           /\ e.kind = "write" => e.path \in Paths /\ e = Event("write", e.path, NoPath)
           /\ is_read(e) => is_filesystem(e)
  BY DEF Events, FileEvents, ProcessEvents, is_filesystem, is_process_event, is_read,
         ProcessKinds, ReadKinds, MutationKinds, Event

\* Every nonempty set of queue positions has a first one.
LEMMA MinPosition ==
    ASSUME NEW n \in Nat, NEW S \in SUBSET (1..n), S # {}
    PROVE  Min(S) \in S
<1>. DEFINE R == {ss \in Nat \X Nat : ss[1] < ss[2]}
<1>1. IsWellFoundedOn(R, Nat)
  BY NatLessThanWellFounded, Zenon DEF OpToRel
<1>2. S \subseteq Nat
  OBVIOUS
<1>. HIDE DEF R
<1>3. PICK x \in S : \A y \in S : ~(<<y, x>> \in R)
  BY <1>1, <1>2, WFMin, Zenon
<1>4. ASSUME NEW y \in S  PROVE x <= y
  <2>1. x \in Nat /\ y \in Nat
    BY <1>2, Zenon
  <2>2. <<y, x>> \notin R
    BY <1>3, Zenon
  <2>3. ~(y < x)
    BY <2>1, <2>2, Zenon DEF R
  <2>. QED
    BY <2>1, <2>3
<1>. QED
  BY <1>4, Zenon DEF Min

\* RemoveAt returns a sequence that is one element shorter.
LEMMA RemoveAtFacts ==
    ASSUME NEW S, NEW s \in Seq(S), NEW i \in 1..Len(s)
    PROVE  RemoveAt(s, i) \in Seq(S) /\ Len(RemoveAt(s, i)) = Len(s) - 1
<1>. DEFINE before == SubSeq(s, 1, i - 1)
            after == SubSeq(s, i + 1, Len(s))
<1>1. before \in Seq(S) /\ Len(before) = i - 1
  OBVIOUS
<1>2. after \in Seq(S) /\ Len(after) = Len(s) - i
  OBVIOUS
<1>3. RemoveAt(s, i) = before \o after /\ Len(s) \in Nat
  BY DEF RemoveAt
<1>. HIDE DEF before, after
<1>4. before \o after \in Seq(S) /\ Len(before \o after) = Len(before) + Len(after)
  BY <1>1, <1>2, SMTT(30)
<1>. QED
  BY <1>1, <1>2, <1>3, <1>4

\* Evict takes one event out, forgets last_write and raises the flag.
LEMMA EvictFacts ==
    ASSUME NEW q, QueueType(q), NEW i \in 1..Len(q.events)
    PROVE  /\ QueueType(Evict(q, i))
           /\ Len(Evict(q, i).events) = Len(q.events) - 1
           /\ Evict(q, i).last = NoLastWrite
           /\ Evict(q, i).lost
<1>1. q.events \in Seq(Events) /\ Len(q.events) \in Nat /\ Len(q.events) <= QueueCap
  BY QueueFields, Zenon
<1>2. /\ RemoveAt(q.events, i) \in Seq(Events)
      /\ Len(RemoveAt(q.events, i)) = Len(q.events) - 1
  BY <1>1, RemoveAtFacts, Zenon
<1>3. NoLastWrite \in [Paths -> 0..QueueCap]
  BY QueueAssumption DEF NoLastWrite
<1>. QED
  BY <1>1, <1>2, <1>3, QueueAssumption DEF Evict, QueueType

\* Making room leaves a free place and a sound last_write, and reports what it took.
LEMMA MakeRoomFacts ==
    ASSUME NEW q, QueueType(q), Sound(q), NEW e \in Events, ~Discards(q, e)
    PROVE  /\ QueueType(MakeRoom(q, e)) /\ Sound(MakeRoom(q, e))
           /\ Len(MakeRoom(q, e).events) < QueueCap
           /\ MakeRoom(q, e).lost \/ MakeRoom(q, e) = q
<1>. DEFINE reads == {i \in Positions(q) : is_read(q.events[i])}
            files == {i \in Positions(q) : is_filesystem(q.events[i])}
<1>1. /\ q.events \in Seq(Events) /\ Len(q.events) \in Nat
      /\ Positions(q) = 1..Len(q.events)
  BY DEF QueueType, Positions
<1>2. ASSUME NEW i \in Positions(q), MakeRoom(q, e) = Evict(q, i), Len(q.events) >= QueueCap
      PROVE  /\ QueueType(MakeRoom(q, e)) /\ Sound(MakeRoom(q, e))
             /\ Len(MakeRoom(q, e).events) < QueueCap
             /\ MakeRoom(q, e).lost
  <2>1. /\ QueueType(Evict(q, i)) /\ Evict(q, i).lost
        /\ Len(Evict(q, i).events) = Len(q.events) - 1
        /\ Evict(q, i).last = NoLastWrite
    BY <1>1, <1>2, EvictFacts, Zenon
  <2>2. Len(q.events) <= QueueCap
    BY Zenon DEF QueueType
  <2>. QED
    BY <1>1, <1>2, <2>1, <2>2, QueueAssumption DEF Sound, NoLastWrite
<1>3. CASE Len(q.events) < QueueCap
  <2>1. MakeRoom(q, e) = q
    BY <1>1, <1>3, QueueAssumption DEF MakeRoom
  <2>. QED
    BY <1>3, <2>1, Zenon
<1>4. CASE Len(q.events) >= QueueCap /\ reads # {}
  <2>1. Min(reads) \in reads
    BY <1>1, <1>4, MinPosition, Zenon
  <2>2. MakeRoom(q, e) = Evict(q, Min(reads))
    BY <1>1, <1>4, QueueAssumption DEF MakeRoom
  <2>. QED
    BY <1>2, <1>4, <2>1, <2>2, Zenon
<1>5. CASE Len(q.events) >= QueueCap /\ reads = {} /\ files # {}
  <2>1. Min(files) \in files
    BY <1>1, <1>5, MinPosition, Zenon
  <2>2. MakeRoom(q, e) = Evict(q, Min(files))
    BY <1>1, <1>5, QueueAssumption DEF MakeRoom
  <2>. QED
    BY <1>2, <1>5, <2>1, <2>2, Zenon
<1>6. CASE Len(q.events) >= QueueCap /\ reads = {} /\ files = {}
  <2>1. MakeRoom(q, e) = [events |-> Tail(q.events), last |-> q.last, lost |-> TRUE]
    BY <1>1, <1>6, QueueAssumption DEF MakeRoom
  <2>2. /\ Tail(q.events) \in Seq(Events)
        /\ Len(Tail(q.events)) = Len(q.events) - 1
    BY <1>1, <1>6, QueueAssumption
  <2>3. \A p \in Paths : q.last[p] = 0
    <3>1. \A p \in Paths : is_filesystem(Event("write", p, NoPath))
      BY Zenon DEF is_filesystem, is_process_event, Event, ProcessKinds
    <3>. QED
      BY <1>1, <1>6, <3>1, Zenon DEF Sound
  <2>4. Len(q.events) <= QueueCap /\ q.last \in [Paths -> 0..QueueCap]
    BY Zenon DEF QueueType
  <2>. QED
    BY <1>1, <1>6, <2>1, <2>2, <2>3, <2>4, QueueAssumption DEF QueueType, Sound
<1>. QED
  BY <1>1, <1>3, <1>4, <1>5, <1>6, QueueAssumption

\* Appending an event to a queue with a free place.
LEMMA AppendFacts ==
    ASSUME NEW q, QueueType(q), Sound(q), Len(q.events) < QueueCap, NEW e \in Events
    PROVE  /\ QueueType(Append1(q, e)) /\ Sound(Append1(q, e))
           /\ Append1(q, e).events = Append(q.events, e)
           /\ Append1(q, e).lost = q.lost
<1>. DEFINE last == IF e.kind = "write"
                    THEN [q.last EXCEPT ![e.path] = Len(q.events) + 1]
                    ELSE q.last
<1>1. /\ q.events \in Seq(Events) /\ Len(q.events) \in Nat
      /\ q.last \in [Paths -> 0..QueueCap] /\ q.lost \in BOOLEAN
  BY DEF QueueType
<1>2. Append1(q, e) = [events |-> Append(q.events, e), last |-> last, lost |-> q.lost]
  BY Zenon DEF Append1
<1>3. /\ Append(q.events, e) \in Seq(Events)
      /\ Len(Append(q.events, e)) = Len(q.events) + 1
      /\ Append(q.events, e)[Len(q.events) + 1] = e
      /\ \A i \in 1..Len(q.events) : Append(q.events, e)[i] = q.events[i]
  BY <1>1
<1>4. last \in [Paths -> 0..QueueCap]
  BY <1>1, FileEvent, QueueAssumption
<1>5. ASSUME NEW p \in Paths, last[p] # 0
      PROVE  /\ last[p] \in 1..(Len(q.events) + 1)
             /\ Append(q.events, e)[last[p]] = Event("write", p, NoPath)
  <2>1. CASE e.kind = "write" /\ p = e.path
    BY <1>1, <1>3, <2>1, FileEvent
  <2>2. CASE ~(e.kind = "write" /\ p = e.path)
    <3>1. last[p] = q.last[p]
      BY <1>1, <2>2, Zenon
    <3>. QED
      BY <1>1, <1>3, <1>5, <3>1 DEF Sound
  <2>. QED
    BY <2>1, <2>2, Zenon
<1>. HIDE DEF last
<1>. QED
  BY <1>1, <1>2, <1>3, <1>4, <1>5, QueueAssumption DEF QueueType, Sound

\* The events in a queue.
Held(q) == {q.events[i] : i \in Positions(q)}

\* What a push guarantees: the type and last_write, the flag stays up, and unless it
\* goes up everything queued before and the new event are queued.
LEMMA PushFacts ==
    ASSUME NEW q, QueueType(q), Sound(q), NEW e \in Events
    PROVE  /\ QueueType(push(q, e)) /\ Sound(push(q, e))
           /\ q.lost => push(q, e).lost
           /\ push(q, e).lost \/ Held(q) \cup {e} \subseteq Held(push(q, e))
<1>1. CASE Coalesces(q, e)
  <2>1. push(q, e) = q
    BY <1>1, Zenon DEF push
  <2>2. e.path \in Paths /\ e = Event("write", e.path, NoPath)
    BY <1>1, FileEvent, Zenon DEF Coalesces
  <2>3. q.last[e.path] \in Positions(q) /\ q.events[q.last[e.path]] = e
    BY <1>1, <2>2, QueueFields DEF Coalesces, Sound, Positions
  <2>. QED
    BY <2>1, <2>3, Zenon DEF Held
<1>2. CASE ~Coalesces(q, e) /\ Discards(q, e)
  <2>1. push(q, e) = [events |-> q.events, last |-> q.last, lost |-> TRUE]
    BY <1>2, Zenon DEF push, report_loss
  <2>. QED
    BY <2>1, QueueFields DEF QueueType, Sound
<1>3. CASE ~Coalesces(q, e) /\ ~Discards(q, e)
  <2>. DEFINE r == MakeRoom(q, e)
  <2>1. push(q, e) = Append1(r, e)
    BY <1>3, Zenon DEF push
  <2>2. /\ QueueType(r) /\ Sound(r) /\ Len(r.events) < QueueCap
        /\ r.lost \/ r = q
    BY <1>3, MakeRoomFacts, Zenon
  <2>. HIDE DEF r
  <2>3. /\ QueueType(Append1(r, e)) /\ Sound(Append1(r, e))
        /\ Append1(r, e).events = Append(r.events, e)
        /\ Append1(r, e).lost = r.lost
    BY <2>2, AppendFacts, Zenon
  <2>4. Held(r) \cup {e} \subseteq Held(Append1(r, e))
    <3>1. r.events \in Seq(Events) /\ Len(r.events) \in Nat
      BY <2>2, QueueFields, Zenon
    <3>2. /\ Len(Append(r.events, e)) = Len(r.events) + 1
          /\ Append(r.events, e)[Len(r.events) + 1] = e
          /\ \A i \in 1..Len(r.events) : Append(r.events, e)[i] = r.events[i]
      BY <3>1
    <3>. QED
      BY <2>3, <3>1, <3>2 DEF Held, Positions
  <2>. QED
    BY <2>1, <2>2, <2>3, <2>4, Zenon
<1>. QED
  BY <1>1, <1>2, <1>3, Zenon

\* The inductive invariant.
QueueInv == TypeOK /\ LastWriteSound /\ LossReported

\* What the invariant says of the queue, field by field.
LEMMA QueueInvParts ==
    QueueInv <=> /\ QueueType(queue) /\ Sound(queue)
                 /\ owed \subseteq Events
                 /\ queue.lost \/ owed \subseteq Held(queue)
  BY Zenon DEF QueueInv, TypeOK, LastWriteSound, LossReported, QueueType, Sound, Held,
         Events, Positions

\* The queue the observer starts with satisfies the invariant.
LEMMA QueueInvInit == Init => QueueInv
<1>1. QueueType(EmptyQueue) /\ Sound(EmptyQueue)
  BY QueueAssumption DEF EmptyQueue, NoLastWrite, QueueType, Sound
<1>. QED
  BY <1>1, Zenon DEF Init, QueueInv, TypeOK, LastWriteSound, LossReported, QueueType, Sound,
              Events, Positions

\* push, drain and the loss flag keep it.
LEMMA QueueInvStep == QueueInv /\ [Next]_vars => QueueInv'
<1>. SUFFICES ASSUME QueueInv, [Next]_vars  PROVE QueueInv'
  BY Zenon
<1>1. /\ QueueType(queue) /\ Sound(queue) /\ owed \subseteq Events
      /\ queue.lost \/ owed \subseteq Held(queue)
  BY QueueInvParts, Zenon
<1>2. SUFFICES /\ QueueType(queue') /\ Sound(queue') /\ owed' \subseteq Events
               /\ queue'.lost \/ owed' \subseteq Held(queue')
  BY Zenon DEF QueueInv, TypeOK, LastWriteSound, LossReported, QueueType, Sound, Held,
         Events, Positions
<1>3. ASSUME NEW e \in FileEvents \cup ProcessEvents, Push(e)
      PROVE  /\ QueueType(queue') /\ Sound(queue') /\ owed' \subseteq Events
             /\ queue'.lost \/ owed' \subseteq Held(queue')
  <2>1. e \in Events /\ queue' = push(queue, e) /\ owed' = owed \cup {e}
    BY <1>3, Zenon DEF Push, Events
  <2>2. /\ QueueType(queue') /\ Sound(queue')
        /\ queue.lost => queue'.lost
        /\ queue'.lost \/ Held(queue) \cup {e} \subseteq Held(queue')
    BY <1>1, <2>1, PushFacts, Zenon
  <2>. QED
    BY <1>1, <2>1, <2>2, Zenon
<1>4. CASE Drain
  <2>1. /\ queue' = [events |-> <<>>, last |-> NoLastWrite, lost |-> queue.lost]
        /\ owed' = {e \in owed : \A i \in Positions(queue) : queue.events[i] # e}
    BY <1>4, Zenon DEF Drain, drain
  <2>2. QueueType(queue') /\ Sound(queue')
    BY <1>1, <2>1, QueueFields, QueueAssumption DEF QueueType, Sound, NoLastWrite
  <2>3. queue.lost \/ owed' = {}
    BY <1>1, <2>1, Zenon DEF Held
  <2>. QED
    BY <1>1, <2>1, <2>2, <2>3, Zenon
<1>5. CASE ReportLoss
  BY <1>1, <1>5, QueueFields, Zenon DEF ReportLoss, report_loss, QueueType, Sound
<1>6. CASE TakeLossFlag
  <2>1. /\ queue' = [events |-> queue.events, last |-> queue.last, lost |-> FALSE]
        /\ owed' = Held(queue)
    BY <1>6, Zenon DEF TakeLossFlag, Held
  <2>2. QueueType(queue') /\ Sound(queue') /\ Held(queue') = Held(queue)
    BY <1>1, <2>1, QueueFields, Zenon DEF QueueType, Sound, Held, Positions
  <2>3. Held(queue) \subseteq Events
    BY <1>1, QueueFields DEF Held, Positions
  <2>. QED
    BY <2>1, <2>2, <2>3, Zenon
<1>7. CASE UNCHANGED vars
  BY <1>1, <1>7, Zenon DEF vars
<1>. QED
  BY <1>3, <1>4, <1>5, <1>6, <1>7, Zenon DEF Next

\* For every cap and every set of paths: the queue stays within its cap, last_write
\* names a queued write of its path or nothing (so a coalesced write is never merged
\* into another event), and an event that is neither queued nor drained has raised
\* the loss flag (EventQueue::push, drain, report_loss and take_loss_flag).
THEOREM QueueSound == Spec => [](TypeOK /\ QueueKept)
<1>1. QueueInv => TypeOK /\ QueueKept
  BY Zenon DEF QueueInv, QueueKept
<1>. QED
  BY <1>1, QueueInvInit, QueueInvStep, PTL DEF Spec

-----------------------------------------------------------------------------
\* The process stream.

\* Where the elements of a concatenation come from.
LEMMA ConcatAt ==
    ASSUME NEW S, NEW u \in Seq(S), NEW v \in Seq(S)
    PROVE  /\ Len(u \o v) = Len(u) + Len(v)
           /\ \A k \in 1..Len(u) : (u \o v)[k] = u[k]
           /\ \A k \in 1..Len(v) : (u \o v)[Len(u) + k] = v[k]
<1>1. Len(u \o v) = Len(u) + Len(v)
  OBVIOUS
<1>2. ASSUME NEW k \in 1..Len(u)
      PROVE  (u \o v)[k] = u[k]
  OBVIOUS
<1>3. ASSUME NEW k \in 1..Len(v)
      PROVE  (u \o v)[Len(u) + k] = v[k]
  OBVIOUS
<1>. QED
  BY <1>1, <1>2, <1>3, Zenon

\* RemoveAt keeps the elements at the other positions.
LEMMA RemoveAtKeeps ==
    ASSUME NEW S, NEW s \in Seq(S), NEW i \in 1..Len(s), NEW j \in 1..Len(s), i # j
    PROVE  \E k \in 1..Len(RemoveAt(s, i)) : RemoveAt(s, i)[k] = s[j]
<1>. DEFINE before == SubSeq(s, 1, i - 1)
            after == SubSeq(s, i + 1, Len(s))
<1>1. /\ before \in Seq(S) /\ Len(before) = i - 1
      /\ \A k \in 1..(i - 1) : before[k] = s[k]
  OBVIOUS
<1>2. /\ after \in Seq(S) /\ Len(after) = Len(s) - i
      /\ \A k \in 1..(Len(s) - i) : after[k] = s[i + k]
  OBVIOUS
<1>3. RemoveAt(s, i) = before \o after /\ Len(s) \in Nat
  BY DEF RemoveAt
<1>. HIDE DEF before, after
<1>4. /\ Len(before \o after) = Len(before) + Len(after)
      /\ \A k \in 1..Len(before) : (before \o after)[k] = before[k]
      /\ \A k \in 1..Len(after) : (before \o after)[Len(before) + k] = after[k]
  <2>1. before \in Seq(S) /\ after \in Seq(S)
    BY <1>1, <1>2, Zenon
  <2>. QED
    BY ONLY <2>1, ConcatAt
<1>5. CASE j < i
  <2>1. j \in 1..Len(before) /\ j \in 1..Len(before \o after)
    BY <1>1, <1>2, <1>3, <1>4, <1>5
  <2>. QED
    BY <1>1, <1>3, <1>4, <2>1, Zenon
<1>6. CASE j > i
  <2>1. /\ j - i \in 1..Len(after) /\ Len(before) + (j - i) = j - 1
        /\ j - 1 \in 1..Len(before \o after) /\ i + (j - i) = j
    BY <1>1, <1>2, <1>3, <1>4, <1>6
  <2>2. (before \o after)[j - 1] = s[j]
    BY <1>2, <1>4, <2>1, ZenonT(40)
  <2>. QED
    BY <1>3, <2>1, <2>2, Zenon
<1>. QED
  BY <1>3, <1>5, <1>6

\* Room is made at the expense of a filesystem event as long as there is one.
LEMMA RoomKeepsProcess ==
    ASSUME NEW q, QueueType(q), NEW e \in ProcessEvents, e \in Held(q), NEW f \in Events,
           \E i \in Positions(q) : is_filesystem(q.events[i])
    PROVE  e \in Held(MakeRoom(q, f))
<1>. DEFINE reads == {i \in Positions(q) : is_read(q.events[i])}
            files == {i \in Positions(q) : is_filesystem(q.events[i])}
<1>1. /\ q.events \in Seq(Events) /\ Len(q.events) \in Nat
      /\ Positions(q) = 1..Len(q.events)
  BY DEF QueueType, Positions
<1>2. PICK j \in Positions(q) : q.events[j] = e
  BY Zenon DEF Held
<1>3. ~is_filesystem(e)
  BY DEF ProcessEvents, Event, is_filesystem, is_process_event
<1>4. ASSUME NEW i \in Positions(q), is_filesystem(q.events[i]), MakeRoom(q, f) = Evict(q, i)
      PROVE  e \in Held(MakeRoom(q, f))
  <2>1. i # j
    BY <1>2, <1>3, <1>4, Zenon
  <2>2. \E k \in 1..Len(RemoveAt(q.events, i)) : RemoveAt(q.events, i)[k] = e
    BY <1>1, <1>2, <2>1, RemoveAtKeeps, SMTT(30)
  <2>. QED
    BY <1>4, <2>2 DEF Evict, Held, Positions
<1>5. CASE Len(q.events) < QueueCap
  <2>1. MakeRoom(q, f) = q
    BY <1>1, <1>5, QueueAssumption DEF MakeRoom
  <2>. QED
    BY <2>1, Zenon
<1>6. CASE Len(q.events) >= QueueCap /\ reads # {}
  <2>1. Min(reads) \in reads
    BY <1>1, <1>6, MinPosition, Zenon
  <2>2. MakeRoom(q, f) = Evict(q, Min(reads))
    BY <1>1, <1>6, QueueAssumption DEF MakeRoom
  <2>3. is_filesystem(q.events[Min(reads)])
    BY <2>1, Zenon DEF is_read, is_filesystem, is_process_event, ReadKinds, ProcessKinds
  <2>. QED
    BY <1>4, <2>1, <2>2, <2>3, Zenon
<1>7. CASE Len(q.events) >= QueueCap /\ reads = {}
  <2>1. files # {}
    BY Zenon
  <2>2. Min(files) \in files
    BY <1>1, <2>1, MinPosition, Zenon
  <2>3. MakeRoom(q, f) = Evict(q, Min(files))
    BY <1>1, <1>7, <2>1, QueueAssumption DEF MakeRoom
  <2>. QED
    BY <1>4, <2>2, <2>3, Zenon
<1>. QED
  BY <1>1, <1>5, <1>6, <1>7, QueueAssumption

\* So a push keeps the process events while a filesystem event is queued.
LEMMA PushKeepsProcess ==
    ASSUME NEW q, QueueType(q), Sound(q), NEW e \in ProcessEvents, e \in Held(q),
           NEW f \in Events, \E i \in Positions(q) : is_filesystem(q.events[i])
    PROVE  e \in Held(push(q, f))
<1>1. CASE Coalesces(q, f)
  BY <1>1, Zenon DEF push
<1>2. CASE ~Coalesces(q, f) /\ Discards(q, f)
  BY <1>2, Zenon DEF push, report_loss, Held, Positions
<1>3. CASE ~Coalesces(q, f) /\ ~Discards(q, f)
  <2>. DEFINE r == MakeRoom(q, f)
  <2>1. push(q, f) = Append1(r, f) /\ e \in Held(r)
    BY <1>3, RoomKeepsProcess, Zenon DEF push
  <2>2. QueueType(r) /\ Sound(r) /\ Len(r.events) < QueueCap
    BY <1>3, MakeRoomFacts, Zenon
  <2>. HIDE DEF r
  <2>3. Append1(r, f).events = Append(r.events, f)
    BY <2>2, AppendFacts, Zenon
  <2>4. r.events \in Seq(Events) /\ Len(r.events) \in Nat
    BY <2>2, QueueFields, Zenon
  <2>5. /\ Len(Append(r.events, f)) = Len(r.events) + 1
        /\ \A i \in 1..Len(r.events) : Append(r.events, f)[i] = r.events[i]
    BY <2>4
  <2>. QED
    BY <2>1, <2>3, <2>4, <2>5 DEF Held, Positions
<1>. QED
  BY <1>1, <1>2, <1>3, Zenon

\* For every cap and every set of paths: while a filesystem event is queued, no push
\* takes a process event out of the queue (EventQueue::push and make_room).
THEOREM ProcessStreamIsKept == Spec => ProcessStreamKept
<1>1. ASSUME QueueInv, NEW e \in ProcessEvents,
             \E i \in Positions(queue) : queue.events[i] = e,
             NEW f \in FileEvents \cup ProcessEvents, Push(f),
             \E i \in Positions(queue) : is_filesystem(queue.events[i])
      PROVE  \E i \in Positions(queue') : queue'.events[i] = e
  <2>1. QueueType(queue) /\ Sound(queue) /\ e \in Held(queue) /\ f \in Events
    BY <1>1, QueueInvParts, Zenon DEF Held, Events
  <2>2. queue' = push(queue, f)
    BY <1>1, Zenon DEF Push
  <2>3. e \in Held(push(queue, f))
    BY <1>1, <2>1, PushKeepsProcess, Zenon
  <2>. QED
    BY <2>2, <2>3, Zenon DEF Held
<1>2. QueueInv /\ [Next]_vars =>
        [\A e \in ProcessEvents :
           /\ \E i \in Positions(queue) : queue.events[i] = e
           /\ \E f \in FileEvents \cup ProcessEvents : Push(f)
           /\ \E i \in Positions(queue) : is_filesystem(queue.events[i])
           => \E i \in Positions(queue') : queue'.events[i] = e]_vars
  BY <1>1, Zenon
<1>. QED
  BY <1>2, QueueInvInit, QueueInvStep, PTL DEF Spec, ProcessStreamKept
=============================================================================
