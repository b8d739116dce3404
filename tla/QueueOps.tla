------------------------------ MODULE QueueOps ------------------------------
(***************************************************************************)
(* The bounded queue between the kernel observers and the attribution      *)
(* engine of the state agent (noland-observer/src/queue.rs), as operators  *)
(* on a queue record.                                                      *)
(*                                                                         *)
(* An event is a record: its kind and, for a filesystem event, its path    *)
(* (and, for a rename, the previous path).  Timestamps are left out: the   *)
(* queue only stores them.  Positions count from 1; last[p] = 0 says that  *)
(* the map last_write has no entry for p.                                  *)
(***************************************************************************)
EXTENDS Naturals, FiniteSetsExt, SequencesExt

CONSTANTS Paths,      \* the files of one application
          QueueCap    \* EventQueue::cap

ASSUME QueueAssumption == QueueCap \in Nat \ {0}

NoPath == "-"

ProcessKinds == {"exec", "exit"}
ReadKinds == {"read"}
MutationKinds == {"create", "write", "rename", "unlink"}

Event(kind, path, prev) == [kind |-> kind, path |-> path, prev |-> prev]
is_process_event(e) == e.kind \in ProcessKinds
is_read(e) == e.kind \in ReadKinds
is_filesystem(e) == ~is_process_event(e)

NoLastWrite == [p \in Paths |-> 0]
EmptyQueue == [events |-> <<>>, last |-> NoLastWrite, lost |-> FALSE]

Positions(q) == 1..Len(q.events)

\* A write whose path already has a queued write only refreshes its time.
Coalesces(q, e) ==
    /\ e.kind = "write"
    /\ q.last[e.path] \in Positions(q)

\* Taking the event at position i out shifts the later ones.
Evict(q, i) ==
    [events |-> RemoveAt(q.events, i), last |-> NoLastWrite, lost |-> TRUE]

\* Mutant: the eviction is not reported.
MakeRoomSilently(q, e) ==
    LET files == {i \in Positions(q) : is_filesystem(q.events[i])}
    IN  IF Len(q.events) < QueueCap
        THEN q
        ELSE [q EXCEPT !.events = RemoveAt(q.events, IF files = {} THEN 1 ELSE Min(files)),
                       !.last = NoLastWrite]

\* Mutant: the oldest event goes, whatever it is.
MakeRoomOldest(q, e) == IF Len(q.events) < QueueCap THEN q ELSE Evict(q, 1)

\* At the cap: the first read goes, else the first filesystem event, else (for
\* a process event only) the oldest process event.
MakeRoom(q, e) ==
    LET reads == {i \in Positions(q) : is_read(q.events[i])}
        files == {i \in Positions(q) : is_filesystem(q.events[i])}
    IN  CASE Len(q.events) < QueueCap -> q
          [] Len(q.events) >= QueueCap /\ reads # {} -> Evict(q, Min(reads))
          [] Len(q.events) >= QueueCap /\ reads = {} /\ files # {} -> Evict(q, Min(files))
          [] OTHER -> [events |-> Tail(q.events), last |-> q.last, lost |-> TRUE]

\* A filesystem event that meets a queue of process events only is discarded.
Discards(q, e) ==
    /\ Len(q.events) >= QueueCap
    /\ is_filesystem(e)
    /\ \A i \in Positions(q) : is_process_event(q.events[i])

Append1(q, e) ==
    [events |-> Append(q.events, e),
     last |-> IF e.kind = "write"
              THEN [q.last EXCEPT ![e.path] = Len(q.events) + 1]
              ELSE q.last,
     lost |-> q.lost]

report_loss(q) == [events |-> q.events, last |-> q.last, lost |-> TRUE]

push(q, e) ==
    CASE Coalesces(q, e) -> q
      [] ~Coalesces(q, e) /\ Discards(q, e) -> report_loss(q)
      [] OTHER -> Append1(MakeRoom(q, e), e)

\* drain leaves the loss flag for take_loss_flag.
drain(q) == [events |-> <<>>, last |-> NoLastWrite, lost |-> q.lost]
=============================================================================
