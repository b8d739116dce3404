----------------------------- MODULE EventQueue -----------------------------
(***************************************************************************)
(* The event queue as a shared object: observer threads push, the agent's  *)
(* event loop drains and takes the loss flag.  Every operation holds the   *)
(* queue's mutex, so each is one action.                                   *)
(*                                                                         *)
(* `owed' is a history variable: what has been observed since the flag was *)
(* last taken and not yet handed over by a drain.                          *)
(***************************************************************************)
EXTENDS QueueOps

VARIABLES queue, owed

vars == <<queue, owed>>

FileEvents == {Event(k, p, NoPath) : k \in ReadKinds \cup (MutationKinds \ {"rename"}), p \in Paths}
ProcessEvents == {Event(k, NoPath, NoPath) : k \in ProcessKinds}

Init ==
    /\ queue = EmptyQueue
    /\ owed = {}

Push(e) ==
    /\ queue' = push(queue, e)
    /\ owed' = owed \cup {e}

\* The drained events are in the hands of the consumer.
Drain ==
    /\ queue' = drain(queue)
    /\ owed' = {e \in owed : \A i \in Positions(queue) : queue.events[i] # e}

ReportLoss ==
    /\ queue' = report_loss(queue)
    /\ UNCHANGED owed

\* The consumer learns that something is missing and starts afresh.
TakeLossFlag ==
    /\ queue.lost
    /\ queue' = [events |-> queue.events, last |-> queue.last, lost |-> FALSE]
    /\ owed' = {queue.events[i] : i \in Positions(queue)}

Next ==
    \/ \E e \in FileEvents \cup ProcessEvents : Push(e)
    \/ Drain
    \/ ReportLoss
    \/ TakeLossFlag

Spec == Init /\ [][Next]_vars

(***************************************************************************)
(* Properties.                                                             *)
(***************************************************************************)

\* The queue stays within its cap, and last_write maps paths to positions.
TypeOK ==
    /\ queue \in [events : Seq(FileEvents \cup ProcessEvents),
                  last : [Paths -> 0..QueueCap],
                  lost : BOOLEAN]
    /\ Len(queue.events) <= QueueCap
    /\ owed \subseteq FileEvents \cup ProcessEvents

\* push coalesces a write into the position last_write names: that position must
\* hold a write of the same path, through every eviction (queue.rs lines 52-63:
\* the branch that pops a process event does not clear the map).
LastWriteSound ==
    \A p \in Paths :
        queue.last[p] # 0 =>
            /\ queue.last[p] \in Positions(queue)
            /\ queue.events[queue.last[p]] = Event("write", p, NoPath)

\* No event disappears without the loss flag: whatever was observed since the flag
\* was last taken has been drained, is queued, or the flag is up.
LossReported ==
    queue.lost \/ owed \subseteq {queue.events[i] : i \in Positions(queue)}

\* The two together: a write is never merged into another event, and nothing is
\* lost in silence.
QueueKept == LastWriteSound /\ LossReported

\* A push takes a process event out of the queue only when the queue holds nothing
\* else and the new event is a process event too ("Preserve the process identity
\* stream", queue.rs line 96).
ProcessStreamKept ==
    [][\A e \in ProcessEvents :
         /\ \E i \in Positions(queue) : queue.events[i] = e
         /\ \E f \in FileEvents \cup ProcessEvents : Push(f)
         /\ \E i \in Positions(queue) : is_filesystem(queue.events[i])
         => \E i \in Positions(queue') : queue'.events[i] = e]_vars
=============================================================================
