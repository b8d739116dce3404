-------------------------- MODULE StateOperations --------------------------
(***************************************************************************)
(* The background operations of the state agent: the RPC handlers that     *)
(* start, cancel and retry them, the operation manager that runs them one  *)
(* at a time on each of two lanes, their rows in the database, and the     *)
(* recovery of those rows when the agent starts.                           *)
(*                                                                         *)
(* Every RPC connection is served by a task of its own on a multi-threaded *)
(* runtime, so the handlers interleave between any two database or manager *)
(* calls.  What an operation does is left to the other modules; here it    *)
(* writes stages to its row and ends well, with an error, by panic or by   *)
(* cancellation.                                                           *)
(***************************************************************************)
EXTENDS Naturals, FiniteSets

CONSTANTS Ops,          \* operation ids
          Kinds,        \* kinds of operation in use
          Handlers,     \* RPC connections
          MaxRetries,   \* bound: RetryOperation requests in a behaviour
          MaxCrashes,   \* bound: restarts of the agent
          Worlds,       \* which of AllBehaviours may happen besides the normal course
          NoOp

AllBehaviours ==
    {"race",      \* two RetryOperation requests for one operation overlap
     "dbfail"}    \* a database write of a handler or callback fails

ASSUME OperationsAssumption ==
    /\ Kinds \subseteq {"backup", "restore", "seal", "checkpoint"}
    /\ MaxRetries \in Nat
    /\ MaxCrashes \in Nat
    /\ Worlds \subseteq SUBSET AllBehaviours
    /\ NoOp \notin Ops

VARIABLES
    kind,      \* kind of each operation's row
    row,       \* state column of each row, "NONE" without a row
    running,   \* ManagerState::running: "no", "live", "cancel" (cancel_requested)
    task,      \* the task spawned for the operation
    gate,      \* the operation whose worker holds each lane's gate
    rpc,       \* what each connection's handler is doing
    retries, crashes,
    world      \* what may happen in this behaviour

agent == <<kind, row, running, task, gate, rpc, retries, crashes>>
vars == <<agent, world>>
counters == <<retries, crashes>>

Lanes == {"transfer", "control"}
RowStates == {"NONE", "QUEUED", "WORKING", "COMPLETED", "SEALED", "FAILED", "CANCELLED",
              "INTERRUPTED"}
is_terminal_state(s) == s \in {"COMPLETED", "SEALED", "FAILED", "CANCELLED", "INTERRUPTED"}
is_retryable_state(s) == s \in {"FAILED", "CANCELLED", "INTERRUPTED"}
Succeeded(s) == s \in {"COMPLETED", "SEALED"}

\* A task waits for its gate; its worker runs ("working"), also after the
\* operation's last row ("finished"), and returns ("over") or is lost
\* ("dropped" by cancellation, "panicked"); at last RunningGuard is dropped.
TaskStates == {"none", "waiting", "working", "finished", "dropped", "panicked", "over"}

May(b) == b \in world
IdleRpc == [pc |-> "idle", op |-> NoOp, read |-> "NONE"]
At(h, pc) == rpc[h].pc = pc
Goto(h, pc) ==
    [rpc EXCEPT ![h] = [pc |-> pc, op |-> rpc[h].op, read |-> rpc[h].read]]

Lane(k) == IF k \in {"backup", "restore"} THEN "transfer" ELSE "control"
MyLane(o) == Lane(kind[o])

Init ==
    /\ world \in Worlds
    /\ kind \in [Ops -> Kinds]
    /\ row = [o \in Ops |-> "NONE"]
    /\ running = [o \in Ops |-> "no"]
    /\ task = [o \in Ops |-> "none"]
    /\ gate = [l \in Lanes |-> NoOp]
    /\ rpc = [h \in Handlers |-> IdleRpc]
    /\ retries = 0
    /\ crashes = 0

(***************************************************************************)
(* RPC handlers.                                                           *)
(***************************************************************************)

\* StartBackup, StartRestore, StartSeal, StartCheckpoint with a new id
Start(h, o) ==
    /\ At(h, "idle") /\ row[o] = "NONE"
    /\ row' = [row EXCEPT ![o] = "QUEUED"]
    /\ rpc' = [rpc EXCEPT ![h] = [pc |-> "spawn", op |-> o, read |-> "NONE"]]
    /\ UNCHANGED <<kind, running, task, gate, counters>>

\* The row is written, set_operation_phase is not, and the request is refused.
PhaseFails(h) ==
    /\ May("dbfail") /\ At(h, "spawn")
    /\ rpc' = [rpc EXCEPT ![h] = IdleRpc]
    /\ UNCHANGED <<kind, row, running, task, gate, counters>>

\* RetryOperation: get_operation ...
RetryRead(h, o) ==
    /\ At(h, "idle") /\ row[o] # "NONE"
    /\ retries < MaxRetries
    /\ May("race") \/ \A g \in Handlers : rpc[g].op # o
    /\ rpc' = [rpc EXCEPT ![h] = [pc |-> "check", op |-> o, read |-> row[o]]]
    /\ retries' = retries + 1
    /\ UNCHANGED <<kind, row, running, task, gate, crashes>>

\* ... is_running, is_retryable_state and retry_descriptor_for, which knows
\* backups and restores only ...
Retryable(h) ==
    LET o == rpc[h].op
    IN  running[o] = "no" /\ is_retryable_state(rpc[h].read) /\ kind[o] \in {"backup", "restore"}

RetryCheck(h) ==
    /\ At(h, "check")
    /\ rpc' = IF Retryable(h) THEN Goto(h, "requeue") ELSE [rpc EXCEPT ![h] = IdleRpc]
    /\ UNCHANGED <<kind, row, running, task, gate, counters>>

\* ... and upsert_queued_operation, whatever the row says by now.
Requeue(h) ==
    /\ At(h, "requeue")
    /\ row' = [row EXCEPT ![rpc[h].op] = "QUEUED"]
    /\ rpc' = Goto(h, "spawn")
    /\ UNCHANGED <<kind, running, task, gate, counters>>

\* spawn_cancellable_on_lane refuses an id that is still in the map.
Spawn(h) ==
    /\ At(h, "spawn")
    /\ LET o == rpc[h].op
       IN  IF running[o] = "no"
           THEN /\ running' = [running EXCEPT ![o] = "live"]
                /\ task' = [task EXCEPT ![o] = "waiting"]
           ELSE UNCHANGED <<running, task>>
    /\ rpc' = [rpc EXCEPT ![h] = IdleRpc]
    /\ UNCHANGED <<kind, row, gate, counters>>

\* CancelOperation: the send fails once the worker has dropped its receiver.
\* Its answer depends on the row, its effect on the manager only.
Cancel(o) ==
    /\ ~ is_terminal_state(row[o])
    /\ running[o] = "live" /\ task[o] \in {"waiting", "working"}
    /\ running' = [running EXCEPT ![o] = "cancel"]
    /\ UNCHANGED <<kind, row, task, gate, rpc, counters>>

(***************************************************************************)
(* The spawned task.                                                       *)
(***************************************************************************)

\* Mutant: the row's state is not looked at.
MarkAnyState(o, s) == [row EXCEPT ![o] = s]

\* mark_operation_cancelled, mark_operation_failed
Mark(o, s) == IF is_terminal_state(row[o]) THEN row ELSE [row EXCEPT ![o] = s]

\* The rows a callback may leave: its write may fail, and is only logged.
Marked(o, s) == {Mark(o, s)} \cup (IF May("dbfail") THEN {row} ELSE {})

Release(o) == [l \in Lanes |-> IF gate[l] = o THEN NoOp ELSE gate[l]]

\* The select is biased: a task that has been cancelled does not take the gate.
Acquire(o) ==
    /\ task[o] = "waiting" /\ running[o] = "live"
    /\ gate[MyLane(o)] = NoOp
    /\ gate' = [gate EXCEPT ![MyLane(o)] = o]
    /\ task' = [task EXCEPT ![o] = "working"]
    /\ UNCHANGED <<kind, row, running, rpc, counters>>

CancelWaiting(o) ==
    /\ task[o] = "waiting" /\ running[o] = "cancel"
    /\ row' \in Marked(o, "CANCELLED")
    /\ task' = [task EXCEPT ![o] = "over"]
    /\ UNCHANGED <<kind, running, gate, rpc, counters>>

\* persist_operation, record_discovery_duration, persist_restore_operation
Stage(o) ==
    /\ task[o] = "working"
    /\ row' = [row EXCEPT ![o] = "WORKING"]
    /\ UNCHANGED <<kind, running, task, gate, rpc, counters>>

\* The operation's last row.  A failure to write it is only logged for a
\* backup of all applications, a seal and a checkpoint; for a restore and a
\* backup of one application it is a failure of the operation (Fail).
LastRow(o) ==
    /\ task[o] = "working"
    /\ \/ row' = [row EXCEPT ![o] = IF kind[o] = "seal" THEN "SEALED" ELSE "COMPLETED"]
       \/ May("dbfail") /\ kind[o] # "restore" /\ row' = row
    /\ task' = [task EXCEPT ![o] = "finished"]
    /\ UNCHANGED <<kind, running, gate, rpc, counters>>

Return(o) ==
    /\ task[o] = "finished"
    /\ task' = [task EXCEPT ![o] = "over"]
    /\ gate' = Release(o)
    /\ UNCHANGED <<kind, row, running, rpc, counters>>

\* A step fails, or, after the last row of a backup, the write of its metrics.
Fail(o) ==
    /\ task[o] = "working" \/ (task[o] = "finished" /\ kind[o] = "backup")
    /\ row' \in Marked(o, IF kind[o] = "backup" /\ running[o] = "cancel"
                          THEN "CANCELLED" ELSE "FAILED")
    /\ task' = [task EXCEPT ![o] = "over"]
    /\ gate' = Release(o)
    /\ UNCHANGED <<kind, running, rpc, counters>>

\* Mutant: the gate is not freed with the worker.
DropWorkerKeepsGate(o, how) ==
    /\ task[o] = "working"
    /\ how = "dropped" => running[o] = "cancel"
    /\ task' = [task EXCEPT ![o] = how]
    /\ UNCHANGED <<kind, row, running, gate, rpc, counters>>

\* The worker is gone, by cancellation or panic; its permit goes with it ...
DropWorker(o, how) ==
    /\ task[o] = "working"
    /\ how = "dropped" => running[o] = "cancel"
    /\ task' = [task EXCEPT ![o] = how]
    /\ gate' = Release(o)
    /\ UNCHANGED <<kind, row, running, rpc, counters>>

\* ... and then on_cancelled or on_terminated runs.
Callback(o) ==
    /\ task[o] \in {"dropped", "panicked"}
    /\ row' \in Marked(o, IF task[o] = "dropped" THEN "CANCELLED" ELSE "FAILED")
    /\ task' = [task EXCEPT ![o] = "over"]
    /\ UNCHANGED <<kind, running, gate, rpc, counters>>

\* RunningGuard::drop
DropGuard(o) ==
    /\ task[o] = "over"
    /\ running' = [running EXCEPT ![o] = "no"]
    /\ task' = [task EXCEPT ![o] = "none"]
    /\ UNCHANGED <<kind, row, gate, rpc, counters>>

(***************************************************************************)
(* The agent dies and starts again; recover runs before any request.       *)
(***************************************************************************)
\* Mutant: rows that were only queued are left alone.
InterruptedWorkingOnly(s) == IF s = "WORKING" THEN "INTERRUPTED" ELSE s

Interrupted(s) == IF s \in {"QUEUED", "WORKING"} THEN "INTERRUPTED" ELSE s

Restart ==
    /\ crashes < MaxCrashes
    /\ crashes' = crashes + 1
    /\ row' = [o \in Ops |-> Interrupted(row[o])]
    /\ running' = [o \in Ops |-> "no"]
    /\ task' = [o \in Ops |-> "none"]
    /\ gate' = [l \in Lanes |-> NoOp]
    /\ rpc' = [h \in Handlers |-> IdleRpc]
    /\ UNCHANGED <<kind, retries>>

Handle(h) == PhaseFails(h) \/ RetryCheck(h) \/ Requeue(h) \/ Spawn(h)

Step ==
    \/ \E h \in Handlers : \/ Handle(h)
                         \/ \E o \in Ops : Start(h, o) \/ RetryRead(h, o)
    \/ \E o \in Ops : \/ Cancel(o) \/ Acquire(o) \/ CancelWaiting(o) \/ Stage(o) \/ LastRow(o)
                    \/ Return(o) \/ Fail(o)
                    \/ DropWorker(o, "dropped") \/ DropWorker(o, "panicked") \/ Callback(o) \/ DropGuard(o)
    \/ Restart

Next == Step /\ UNCHANGED world

Spec == Init /\ [][Next]_vars

\* What the runtime guarantees: a handler that has started goes on, a worker
\* that has been cancelled is dropped at its next await, a task's other steps
\* are taken, and tokio's Mutex is fair, so that a task waiting for a gate
\* that is freed again and again gets it.  A worker may wait for its storage
\* for ever: the agent puts no time-out on its calls.
Fairness ==
    /\ \A h \in Handlers : WF_agent(Handle(h))
    /\ \A o \in Ops :
         /\ SF_agent(Acquire(o))
         /\ WF_agent(CancelWaiting(o))
         /\ WF_agent(DropWorker(o, "dropped"))
         /\ WF_agent(Return(o))
         /\ WF_agent(Callback(o))
         /\ WF_agent(DropGuard(o))

FairSpec == Spec /\ Fairness

(***************************************************************************)
(* Properties.                                                             *)
(***************************************************************************)

\* Every variable keeps its type.
TypeOK ==
    /\ kind \in [Ops -> Kinds]
    /\ row \in [Ops -> RowStates]
    /\ running \in [Ops -> {"no", "live", "cancel"}]
    /\ task \in [Ops -> TaskStates]
    /\ gate \in [Lanes -> Ops \cup {NoOp}]
    /\ rpc \in [Handlers -> [pc : {"idle", "check", "requeue", "spawn"}, op : Ops \cup {NoOp},
                             read : RowStates]]
    /\ retries \in 0..MaxRetries
    /\ crashes \in 0..MaxCrashes

\* A row that GetOperationStatus reports as queued or working has a task that
\* will end it, or a handler that is about to spawn one: a client that polls
\* it does not poll for ever.  Overlapping retries and row writes that fail and
\* are only logged take that away, until the next start of the agent.
UnfinishedIsManaged ==
    world = {} => \A o \in Ops : row[o] \in {"QUEUED", "WORKING"} =>
        \/ running[o] # "no"
        \/ \E h \in Handlers : rpc[h].op = o /\ At(h, "spawn")

\* The manager's entry and the task live and die together: an entry whose
\* task is gone could be neither cancelled nor retried until a restart.
EntryHasTask ==
    \A o \in Ops : running[o] = "no" <=> task[o] = "none"

\* The gate of a lane is held exactly while a worker of that lane runs, so
\* two operations of a lane never overlap and no lane is blocked by the dead.
GateHeldByWorker ==
    \A o \in Ops : task[o] \in {"working", "finished"} <=> gate[MyLane(o)] = o

\* An operation that ended well keeps its row: RetryOperation refuses it and
\* no late failure, cancellation or restart takes it back, also when rows cannot
\* be written.  Two overlapping RetryOperation requests can.
CompletedStays ==
    [][~ May("race") => \A o \in Ops : Succeeded(row[o]) => row'[o] = row[o]]_vars

=============================================================================
