-------------------------- MODULE OperationsProofs --------------------------
(***************************************************************************)
(* Proofs about StateOperations, for any number of operations, kinds,      *)
(* connections, retries and restarts.                                      *)
(***************************************************************************)
EXTENDS StateOperations, TLAPS

Unfinished(s) == s \in {"QUEUED", "WORKING"}
Spawning(o) == \E h \in Handlers : rpc[h].op = o /\ At(h, "spawn")

\* What the row says about the task; the last rows and callbacks of a world in
\* which writes fail may leave an unfinished row behind.
RowAndTask ==
    \A o \in Ops :
        /\ task[o] \in {"waiting", "working", "dropped", "panicked"} => Unfinished(row[o])
        /\ task[o] = "finished" => Succeeded(row[o]) \/ (world # {} /\ Unfinished(row[o]))
        /\ task[o] = "over" => row[o] # "NONE" /\ (world = {} => is_terminal_state(row[o]))
        /\ world = {} /\ task[o] = "none" /\ Unfinished(row[o]) => Spawning(o)

\* What a handler has established about the operation it works on.
HandlersInformed ==
    \A h \in Handlers :
        LET r == rpc[h] IN
        /\ r.pc = "idle" <=> r.op = NoOp
        /\ r.pc # "idle" => row[r.op] # "NONE"
        /\ r.pc = "check" /\ is_retryable_state(r.read) => row[r.op] = r.read
        /\ r.pc = "requeue" => task[r.op] = "none" /\ is_retryable_state(row[r.op])
        /\ r.pc = "spawn" => task[r.op] = "none" /\ row[r.op] = "QUEUED"

\* No two handlers work on one operation.
HandlersApart ==
    \A g, h \in Handlers : g # h /\ rpc[g].op = rpc[h].op => rpc[g].op = NoOp

OperationsInv ==
    TypeOK /\ EntryHasTask /\ RowAndTask /\ HandlersInformed /\ HandlersApart

\* A successful row changes in no step.
Kept == \A o \in Ops : Succeeded(row[o]) => row'[o] = row[o]

\* A worker that drops its permit leaves gates that are free or held.
LEMMA ReleaseType ==
    ASSUME TypeOK, NEW o \in Ops
    PROVE  Release(o) \in [Lanes -> Ops \cup {NoOp}]
  BY Zenon DEF TypeOK, Release

\* The invariant holds when the agent starts with an empty database.
LEMMA OperationsInvInit == Init => OperationsInv
  BY OperationsAssumption DEF Init, OperationsInv, TypeOK, EntryHasTask, RowAndTask,
     HandlersInformed,
     HandlersApart, IdleRpc, RowStates, TaskStates, Unfinished, Succeeded, is_terminal_state,
     is_retryable_state

\* Without overlapping retries of one operation every step keeps the invariant and every row that says success.
LEMMA OperationsInvStep ==
    ASSUME ~ May("race"), OperationsInv, [Next]_vars
    PROVE  OperationsInv' /\ Kept
<1> USE OperationsAssumption DEF counters, May
<1>0. world' = world
  BY Zenon DEF Next, vars
<1>1. ASSUME NEW h \in Handlers, NEW o \in Ops, Start(h, o) PROVE OperationsInv' /\ Kept
  <2>1. TypeOK'
    BY <1>1, Zenon DEF OperationsInv, TypeOK, RowStates, TaskStates, Start, At
  <2>2. EntryHasTask'
    BY <1>1, Zenon DEF OperationsInv, TypeOK, EntryHasTask, Start, At
  <2>3. RowAndTask' /\ Kept
    BY <1>0, <1>1 DEF OperationsInv, TypeOK, EntryHasTask, RowAndTask, HandlersInformed,
       HandlersApart, Unfinished, Spawning, Succeeded, is_terminal_state, is_retryable_state,
       At, RowStates, TaskStates, Kept, Start, At
  <2>4. HandlersInformed'
    BY <1>1 DEF OperationsInv, TypeOK, EntryHasTask, RowAndTask, HandlersInformed,
       HandlersApart, Unfinished, Spawning, Succeeded, is_terminal_state, is_retryable_state,
       At, RowStates, TaskStates, Start, At
  <2>5. HandlersApart'
    BY <1>1 DEF OperationsInv, TypeOK, EntryHasTask, RowAndTask, HandlersInformed,
       HandlersApart, Start, At
  <2> QED BY <2>1, <2>2, <2>3, <2>4, <2>5, Zenon DEF OperationsInv
<1>2. ASSUME NEW h \in Handlers, NEW o \in Ops, RetryRead(h, o) PROVE OperationsInv' /\ Kept
  <2>1. TypeOK'
    BY <1>2 DEF OperationsInv, TypeOK, RowStates, TaskStates, RetryRead, At, May
  <2>2. EntryHasTask'
    BY <1>2, Zenon DEF OperationsInv, TypeOK, EntryHasTask, RetryRead, At, May
  <2>3. RowAndTask' /\ Kept
    BY <1>0, <1>2, Zenon DEF OperationsInv, TypeOK, EntryHasTask, RowAndTask, HandlersInformed,
       HandlersApart, Unfinished, Spawning, Succeeded, is_terminal_state, is_retryable_state,
       At, RowStates, TaskStates, Kept, RetryRead, At, May
  <2>4. HandlersInformed'
    BY <1>2 DEF OperationsInv, TypeOK, EntryHasTask, RowAndTask, HandlersInformed,
       HandlersApart, Unfinished, Spawning, Succeeded, is_terminal_state, is_retryable_state,
       At, RowStates, TaskStates, RetryRead, At, May
  <2>5. HandlersApart'
    BY <1>2 DEF OperationsInv, TypeOK, EntryHasTask, RowAndTask, HandlersInformed,
       HandlersApart, RetryRead, At, May
  <2> QED BY <2>1, <2>2, <2>3, <2>4, <2>5, Zenon DEF OperationsInv
<1>3. ASSUME NEW h \in Handlers, PhaseFails(h) PROVE OperationsInv' /\ Kept
  <2>1. TypeOK'
    BY <1>3, Zenon DEF OperationsInv, TypeOK, RowStates, TaskStates, PhaseFails, IdleRpc
  <2>2. EntryHasTask'
    BY <1>3, Zenon DEF OperationsInv, TypeOK, EntryHasTask, PhaseFails, IdleRpc
  <2>3. RowAndTask' /\ Kept
    BY <1>0, <1>3, Zenon DEF OperationsInv, TypeOK, EntryHasTask, RowAndTask, HandlersInformed,
       HandlersApart, Unfinished, Spawning, Succeeded, is_terminal_state, is_retryable_state,
       At, RowStates, TaskStates, Kept, PhaseFails, IdleRpc
  <2>4. HandlersInformed'
    BY <1>3 DEF OperationsInv, TypeOK, EntryHasTask, RowAndTask, HandlersInformed,
       HandlersApart, Unfinished, Spawning, Succeeded, is_terminal_state, is_retryable_state,
       At, RowStates, TaskStates, PhaseFails, IdleRpc
  <2>5. HandlersApart'
    BY <1>3 DEF OperationsInv, TypeOK, EntryHasTask, RowAndTask, HandlersInformed,
       HandlersApart, PhaseFails, IdleRpc
  <2> QED BY <2>1, <2>2, <2>3, <2>4, <2>5, Zenon DEF OperationsInv
<1>4. ASSUME NEW h \in Handlers, RetryCheck(h) PROVE OperationsInv' /\ Kept
  <2>1. TypeOK'
    BY <1>4, Zenon DEF OperationsInv, TypeOK, RowStates, TaskStates, RetryCheck, Retryable, At, Goto,
       IdleRpc
  <2>2. EntryHasTask'
    BY <1>4, Zenon DEF OperationsInv, TypeOK, EntryHasTask, RetryCheck, Retryable, At, Goto, IdleRpc
  <2>3. RowAndTask' /\ Kept
    BY <1>0, <1>4 DEF OperationsInv, TypeOK, EntryHasTask, RowAndTask, HandlersInformed,
       HandlersApart, Unfinished, Spawning, Succeeded, is_terminal_state, is_retryable_state,
       At, RowStates, TaskStates, Kept, RetryCheck, Retryable, At, Goto, IdleRpc
  <2>4. HandlersInformed'
    BY <1>4 DEF OperationsInv, TypeOK, EntryHasTask, RowAndTask, HandlersInformed,
       HandlersApart, Unfinished, Spawning, Succeeded, is_terminal_state, is_retryable_state,
       At, RowStates, TaskStates, RetryCheck, Retryable, At, Goto, IdleRpc
  <2>5. HandlersApart'
    BY <1>4 DEF OperationsInv, TypeOK, EntryHasTask, RowAndTask, HandlersInformed,
       HandlersApart, RetryCheck, Retryable, At, Goto, IdleRpc
  <2> QED BY <2>1, <2>2, <2>3, <2>4, <2>5, Zenon DEF OperationsInv
<1>5. ASSUME NEW h \in Handlers, Requeue(h) PROVE OperationsInv' /\ Kept
  <2>1. TypeOK'
    BY <1>5, Zenon DEF OperationsInv, TypeOK, RowStates, TaskStates, Requeue, At, Goto
  <2>2. EntryHasTask'
    BY <1>5, Zenon DEF OperationsInv, TypeOK, EntryHasTask, Requeue, At, Goto
  <2>3. RowAndTask' /\ Kept
    BY <1>0, <1>5 DEF OperationsInv, TypeOK, EntryHasTask, RowAndTask, HandlersInformed,
       HandlersApart, Unfinished, Spawning, Succeeded, is_terminal_state, is_retryable_state,
       At, RowStates, TaskStates, Kept, Requeue, At, Goto
  <2>4. HandlersInformed'
    BY <1>5 DEF OperationsInv, TypeOK, EntryHasTask, RowAndTask, HandlersInformed,
       HandlersApart, Unfinished, Spawning, Succeeded, is_terminal_state, is_retryable_state,
       At, RowStates, TaskStates, Requeue, At, Goto
  <2>5. HandlersApart'
    BY <1>5 DEF OperationsInv, TypeOK, EntryHasTask, RowAndTask, HandlersInformed,
       HandlersApart, Requeue, At, Goto
  <2> QED BY <2>1, <2>2, <2>3, <2>4, <2>5, Zenon DEF OperationsInv
<1>6. ASSUME NEW h \in Handlers, Spawn(h) PROVE OperationsInv' /\ Kept
  <2>1. TypeOK'
    BY <1>6 DEF OperationsInv, TypeOK, RowStates, TaskStates, Spawn, At, IdleRpc
  <2>2. EntryHasTask'
    BY <1>6 DEF OperationsInv, TypeOK, EntryHasTask, Spawn, At, IdleRpc
  <2>3. RowAndTask' /\ Kept
    BY <1>0, <1>6 DEF OperationsInv, TypeOK, EntryHasTask, RowAndTask, HandlersInformed,
       HandlersApart, Unfinished, Spawning, Succeeded, is_terminal_state, is_retryable_state,
       At, RowStates, TaskStates, Kept, Spawn, At, IdleRpc
  <2>4. HandlersInformed'
    BY <1>6 DEF OperationsInv, TypeOK, EntryHasTask, RowAndTask, HandlersInformed,
       HandlersApart, Unfinished, Spawning, Succeeded, is_terminal_state, is_retryable_state,
       At, RowStates, TaskStates, Spawn, At, IdleRpc
  <2>5. HandlersApart'
    BY <1>6 DEF OperationsInv, TypeOK, EntryHasTask, RowAndTask, HandlersInformed,
       HandlersApart, Spawn, At, IdleRpc
  <2> QED BY <2>1, <2>2, <2>3, <2>4, <2>5, Zenon DEF OperationsInv
<1>7. ASSUME NEW o \in Ops, Cancel(o) PROVE OperationsInv' /\ Kept
  <2>1. TypeOK'
    BY <1>7, Zenon DEF OperationsInv, TypeOK, RowStates, TaskStates, Cancel
  <2>2. EntryHasTask'
    BY <1>7, Zenon DEF OperationsInv, TypeOK, EntryHasTask, Cancel
  <2>3. RowAndTask' /\ Kept
    BY <1>0, <1>7 DEF OperationsInv, TypeOK, EntryHasTask, RowAndTask, HandlersInformed,
       HandlersApart, Unfinished, Spawning, Succeeded, is_terminal_state, is_retryable_state,
       At, RowStates, TaskStates, Kept, Cancel
  <2>4. HandlersInformed'
    BY <1>7, Zenon DEF OperationsInv, TypeOK, EntryHasTask, RowAndTask, HandlersInformed,
       HandlersApart, Unfinished, Spawning, Succeeded, is_terminal_state, is_retryable_state,
       At, RowStates, TaskStates, Cancel
  <2>5. HandlersApart'
    BY <1>7 DEF OperationsInv, TypeOK, EntryHasTask, RowAndTask, HandlersInformed,
       HandlersApart, Cancel
  <2> QED BY <2>1, <2>2, <2>3, <2>4, <2>5, Zenon DEF OperationsInv
<1>8. ASSUME NEW o \in Ops, Acquire(o) PROVE OperationsInv' /\ Kept
  <2>1. TypeOK'
    BY <1>8, Zenon DEF OperationsInv, TypeOK, RowStates, TaskStates, Acquire, MyLane, Lane, Lanes
  <2>2. EntryHasTask'
    BY <1>8, Zenon DEF OperationsInv, TypeOK, EntryHasTask, Acquire
  <2>3. RowAndTask' /\ Kept
    BY <1>0, <1>8 DEF OperationsInv, TypeOK, EntryHasTask, RowAndTask, HandlersInformed,
       HandlersApart, Unfinished, Spawning, Succeeded, is_terminal_state, is_retryable_state,
       At, RowStates, TaskStates, Kept, Acquire
  <2>4. HandlersInformed'
    BY <1>8 DEF OperationsInv, TypeOK, EntryHasTask, RowAndTask, HandlersInformed,
       HandlersApart, Unfinished, Spawning, Succeeded, is_terminal_state, is_retryable_state,
       At, RowStates, TaskStates, Acquire
  <2>5. HandlersApart'
    BY <1>8 DEF OperationsInv, TypeOK, EntryHasTask, RowAndTask, HandlersInformed,
       HandlersApart, Acquire
  <2> QED BY <2>1, <2>2, <2>3, <2>4, <2>5, Zenon DEF OperationsInv
<1>9. ASSUME NEW o \in Ops, CancelWaiting(o) PROVE OperationsInv' /\ Kept
  <2>1. TypeOK'
    BY <1>9 DEF OperationsInv, TypeOK, RowStates, TaskStates, CancelWaiting, Marked, Mark, May
  <2>2. EntryHasTask'
    BY <1>9, Zenon DEF OperationsInv, TypeOK, EntryHasTask, CancelWaiting, Marked, Mark, May
  <2>3. RowAndTask' /\ Kept
    BY <1>0, <1>9 DEF OperationsInv, TypeOK, EntryHasTask, RowAndTask, HandlersInformed,
       HandlersApart, Unfinished, Spawning, Succeeded, is_terminal_state, is_retryable_state,
       At, RowStates, TaskStates, Kept, CancelWaiting, Marked, Mark, May
  <2>4. HandlersInformed'
    BY <1>9 DEF OperationsInv, TypeOK, EntryHasTask, RowAndTask, HandlersInformed,
       HandlersApart, Unfinished, Spawning, Succeeded, is_terminal_state, is_retryable_state,
       At, RowStates, TaskStates, CancelWaiting, Marked, Mark, May
  <2>5. HandlersApart'
    BY <1>9 DEF OperationsInv, TypeOK, EntryHasTask, RowAndTask, HandlersInformed,
       HandlersApart, CancelWaiting, Marked, Mark, May
  <2> QED BY <2>1, <2>2, <2>3, <2>4, <2>5, Zenon DEF OperationsInv
<1>10. ASSUME NEW o \in Ops, Stage(o) PROVE OperationsInv' /\ Kept
  <2>1. TypeOK'
    BY <1>10, Zenon DEF OperationsInv, TypeOK, RowStates, TaskStates, Stage
  <2>2. EntryHasTask'
    BY <1>10, Zenon DEF OperationsInv, TypeOK, EntryHasTask, Stage
  <2>3. RowAndTask' /\ Kept
    BY <1>0, <1>10 DEF OperationsInv, TypeOK, EntryHasTask, RowAndTask, HandlersInformed,
       HandlersApart, Unfinished, Spawning, Succeeded, is_terminal_state, is_retryable_state,
       At, RowStates, TaskStates, Kept, Stage
  <2>4. HandlersInformed'
    BY <1>10 DEF OperationsInv, TypeOK, EntryHasTask, RowAndTask, HandlersInformed,
       HandlersApart, Unfinished, Spawning, Succeeded, is_terminal_state, is_retryable_state,
       At, RowStates, TaskStates, Stage
  <2>5. HandlersApart'
    BY <1>10 DEF OperationsInv, TypeOK, EntryHasTask, RowAndTask, HandlersInformed,
       HandlersApart, Stage
  <2> QED BY <2>1, <2>2, <2>3, <2>4, <2>5, Zenon DEF OperationsInv
<1>11. ASSUME NEW o \in Ops, LastRow(o) PROVE OperationsInv' /\ Kept
  <2>1. TypeOK'
    BY <1>11 DEF OperationsInv, TypeOK, RowStates, TaskStates, LastRow, May
  <2>2. EntryHasTask'
    BY <1>11, Zenon DEF OperationsInv, TypeOK, EntryHasTask, LastRow, May
  <2>3. RowAndTask' /\ Kept
    BY <1>0, <1>11 DEF OperationsInv, TypeOK, EntryHasTask, RowAndTask, HandlersInformed,
       HandlersApart, Unfinished, Spawning, Succeeded, is_terminal_state, is_retryable_state,
       At, RowStates, TaskStates, Kept, LastRow, May
  <2>4. HandlersInformed'
    BY <1>11 DEF OperationsInv, TypeOK, EntryHasTask, RowAndTask, HandlersInformed,
       HandlersApart, Unfinished, Spawning, Succeeded, is_terminal_state, is_retryable_state,
       At, RowStates, TaskStates, LastRow, May
  <2>5. HandlersApart'
    BY <1>11 DEF OperationsInv, TypeOK, EntryHasTask, RowAndTask, HandlersInformed,
       HandlersApart, LastRow, May
  <2> QED BY <2>1, <2>2, <2>3, <2>4, <2>5, Zenon DEF OperationsInv
<1>12. ASSUME NEW o \in Ops, Return(o) PROVE OperationsInv' /\ Kept
  <2>1. TypeOK'
    BY <1>12, ReleaseType, Zenon DEF OperationsInv, TypeOK, RowStates, TaskStates, Return
  <2>2. EntryHasTask'
    BY <1>12, Zenon DEF OperationsInv, TypeOK, EntryHasTask, Return
  <2>3. RowAndTask' /\ Kept
    BY <1>0, <1>12 DEF OperationsInv, TypeOK, EntryHasTask, RowAndTask, HandlersInformed,
       HandlersApart, Unfinished, Spawning, Succeeded, is_terminal_state, is_retryable_state,
       At, RowStates, TaskStates, Kept, Return
  <2>4. HandlersInformed'
    BY <1>12 DEF OperationsInv, TypeOK, EntryHasTask, RowAndTask, HandlersInformed,
       HandlersApart, Unfinished, Spawning, Succeeded, is_terminal_state, is_retryable_state,
       At, RowStates, TaskStates, Return
  <2>5. HandlersApart'
    BY <1>12 DEF OperationsInv, TypeOK, EntryHasTask, RowAndTask, HandlersInformed,
       HandlersApart, Return
  <2> QED BY <2>1, <2>2, <2>3, <2>4, <2>5, Zenon DEF OperationsInv
<1>13. ASSUME NEW o \in Ops, Fail(o) PROVE OperationsInv' /\ Kept
  <2>1. TypeOK'
    BY <1>13, ReleaseType DEF OperationsInv, TypeOK, RowStates, TaskStates, Fail, Marked,
       Mark, May
  <2>2. EntryHasTask'
    BY <1>13, Zenon DEF OperationsInv, TypeOK, EntryHasTask, Fail, Marked, Mark, May
  <2>3. RowAndTask' /\ Kept
    BY <1>0, <1>13 DEF OperationsInv, TypeOK, EntryHasTask, RowAndTask, HandlersInformed,
       HandlersApart, Unfinished, Spawning, Succeeded, is_terminal_state, is_retryable_state,
       At, RowStates, TaskStates, Kept, Fail, Marked, Mark, May
  <2>4. HandlersInformed'
    BY <1>13 DEF OperationsInv, TypeOK, EntryHasTask, RowAndTask, HandlersInformed,
       HandlersApart, Unfinished, Spawning, Succeeded, is_terminal_state, is_retryable_state,
       At, RowStates, TaskStates, Fail, Marked, Mark, May
  <2>5. HandlersApart'
    BY <1>13 DEF OperationsInv, TypeOK, EntryHasTask, RowAndTask, HandlersInformed,
       HandlersApart, Fail, Marked, Mark, May
  <2> QED BY <2>1, <2>2, <2>3, <2>4, <2>5, Zenon DEF OperationsInv
<1>14. ASSUME NEW o \in Ops, DropWorker(o, "dropped") PROVE OperationsInv' /\ Kept
  <2>1. TypeOK'
    BY <1>14, ReleaseType, Zenon DEF OperationsInv, TypeOK, RowStates, TaskStates, DropWorker
  <2>2. EntryHasTask'
    BY <1>14, Zenon DEF OperationsInv, TypeOK, EntryHasTask, DropWorker
  <2>3. RowAndTask' /\ Kept
    BY <1>0, <1>14 DEF OperationsInv, TypeOK, EntryHasTask, RowAndTask, HandlersInformed,
       HandlersApart, Unfinished, Spawning, Succeeded, is_terminal_state, is_retryable_state,
       At, RowStates, TaskStates, Kept, DropWorker
  <2>4. HandlersInformed'
    BY <1>14 DEF OperationsInv, TypeOK, EntryHasTask, RowAndTask, HandlersInformed,
       HandlersApart, Unfinished, Spawning, Succeeded, is_terminal_state, is_retryable_state,
       At, RowStates, TaskStates, DropWorker
  <2>5. HandlersApart'
    BY <1>14 DEF OperationsInv, TypeOK, EntryHasTask, RowAndTask, HandlersInformed,
       HandlersApart, DropWorker
  <2> QED BY <2>1, <2>2, <2>3, <2>4, <2>5, Zenon DEF OperationsInv
<1>15. ASSUME NEW o \in Ops, DropWorker(o, "panicked") PROVE OperationsInv' /\ Kept
  <2>1. TypeOK'
    BY <1>15, ReleaseType, Zenon DEF OperationsInv, TypeOK, RowStates, TaskStates, DropWorker
  <2>2. EntryHasTask'
    BY <1>15, Zenon DEF OperationsInv, TypeOK, EntryHasTask, DropWorker
  <2>3. RowAndTask' /\ Kept
    BY <1>0, <1>15 DEF OperationsInv, TypeOK, EntryHasTask, RowAndTask, HandlersInformed,
       HandlersApart, Unfinished, Spawning, Succeeded, is_terminal_state, is_retryable_state,
       At, RowStates, TaskStates, Kept, DropWorker
  <2>4. HandlersInformed'
    BY <1>15, Zenon DEF OperationsInv, TypeOK, EntryHasTask, RowAndTask, HandlersInformed,
       HandlersApart, Unfinished, Spawning, Succeeded, is_terminal_state, is_retryable_state,
       At, RowStates, TaskStates, DropWorker
  <2>5. HandlersApart'
    BY <1>15 DEF OperationsInv, TypeOK, EntryHasTask, RowAndTask, HandlersInformed,
       HandlersApart, DropWorker
  <2> QED BY <2>1, <2>2, <2>3, <2>4, <2>5, Zenon DEF OperationsInv
<1>16. ASSUME NEW o \in Ops, Callback(o) PROVE OperationsInv' /\ Kept
  <2>1. TypeOK'
    BY <1>16 DEF OperationsInv, TypeOK, RowStates, TaskStates, Callback, Marked, Mark, May
  <2>2. EntryHasTask'
    BY <1>16, Zenon DEF OperationsInv, TypeOK, EntryHasTask, Callback, Marked, Mark, May
  <2>3. RowAndTask' /\ Kept
    BY <1>0, <1>16 DEF OperationsInv, TypeOK, EntryHasTask, RowAndTask, HandlersInformed,
       HandlersApart, Unfinished, Spawning, Succeeded, is_terminal_state, is_retryable_state,
       At, RowStates, TaskStates, Kept, Callback, Marked, Mark, May
  <2>4. HandlersInformed'
    BY <1>16 DEF OperationsInv, TypeOK, EntryHasTask, RowAndTask, HandlersInformed,
       HandlersApart, Unfinished, Spawning, Succeeded, is_terminal_state, is_retryable_state,
       At, RowStates, TaskStates, Callback, Marked, Mark, May
  <2>5. HandlersApart'
    BY <1>16 DEF OperationsInv, TypeOK, EntryHasTask, RowAndTask, HandlersInformed,
       HandlersApart, Callback, Marked, Mark, May
  <2> QED BY <2>1, <2>2, <2>3, <2>4, <2>5, Zenon DEF OperationsInv
<1>17. ASSUME NEW o \in Ops, DropGuard(o) PROVE OperationsInv' /\ Kept
  <2>1. TypeOK'
    BY <1>17, Zenon DEF OperationsInv, TypeOK, RowStates, TaskStates, DropGuard
  <2>2. EntryHasTask'
    BY <1>17, Zenon DEF OperationsInv, TypeOK, EntryHasTask, DropGuard
  <2>3. RowAndTask' /\ Kept
    BY <1>0, <1>17 DEF OperationsInv, TypeOK, EntryHasTask, RowAndTask, HandlersInformed,
       HandlersApart, Unfinished, Spawning, Succeeded, is_terminal_state, is_retryable_state,
       At, RowStates, TaskStates, Kept, DropGuard
  <2>4. HandlersInformed'
    BY <1>17 DEF OperationsInv, TypeOK, EntryHasTask, RowAndTask, HandlersInformed,
       HandlersApart, Unfinished, Spawning, Succeeded, is_terminal_state, is_retryable_state,
       At, RowStates, TaskStates, DropGuard
  <2>5. HandlersApart'
    BY <1>17 DEF OperationsInv, TypeOK, EntryHasTask, RowAndTask, HandlersInformed,
       HandlersApart, DropGuard
  <2> QED BY <2>1, <2>2, <2>3, <2>4, <2>5, Zenon DEF OperationsInv
<1>18. ASSUME Restart PROVE OperationsInv' /\ Kept
  <2>1. TypeOK'
    BY <1>18 DEF OperationsInv, TypeOK, RowStates, TaskStates, Restart, Interrupted, IdleRpc
  <2>2. EntryHasTask'
    BY <1>18, Zenon DEF OperationsInv, TypeOK, EntryHasTask, Restart, Interrupted, IdleRpc
  <2>3. RowAndTask' /\ Kept
    BY <1>0, <1>18, Zenon DEF OperationsInv, TypeOK, EntryHasTask, RowAndTask, HandlersInformed,
       HandlersApart, Unfinished, Spawning, Succeeded, is_terminal_state, is_retryable_state,
       At, RowStates, TaskStates, Kept, Restart, Interrupted, IdleRpc
  <2>4. HandlersInformed'
    BY <1>18, Zenon DEF OperationsInv, TypeOK, EntryHasTask, RowAndTask, HandlersInformed,
       HandlersApart, Unfinished, Spawning, Succeeded, is_terminal_state, is_retryable_state,
       At, RowStates, TaskStates, Restart, Interrupted, IdleRpc
  <2>5. HandlersApart'
    BY <1>18, Zenon DEF OperationsInv, TypeOK, EntryHasTask, RowAndTask, HandlersInformed,
       HandlersApart, Restart, Interrupted, IdleRpc
  <2> QED BY <2>1, <2>2, <2>3, <2>4, <2>5, Zenon DEF OperationsInv
<1>19. CASE UNCHANGED vars
  BY <1>19 DEF OperationsInv, TypeOK, EntryHasTask, RowAndTask, HandlersInformed,
     HandlersApart, Unfinished, Spawning, Succeeded, is_terminal_state, is_retryable_state,
     At, RowStates, TaskStates, Kept, vars, agent
<1> QED
  BY <1>1, <1>2, <1>3, <1>4, <1>5, <1>6, <1>7, <1>8, <1>9, <1>10, <1>11, <1>12, <1>13, <1>14,
     <1>15, <1>16, <1>17, <1>18, <1>19, Zenon DEF Next, Step, Handle

\* Unless retries of one operation overlap, the invariant holds throughout, and
\* no step takes back a row that says success.
LEMMA OperationsInvAlways ==
    Spec => /\ [](~ May("race") => OperationsInv)
            /\ [][~ May("race") => Kept]_vars
<1>1. Init => (~ May("race") => OperationsInv)
  BY OperationsInvInit, Zenon
<1>2. (~ May("race") => OperationsInv) /\ [Next]_vars => (~ May("race") => OperationsInv)'
  BY OperationsInvStep, Zenon DEF Next, vars, May
<1>3. (~ May("race") => OperationsInv) /\ [Next]_vars => [~ May("race") => Kept]_vars
  BY OperationsInvStep, Zenon
<1> QED BY <1>1, <1>2, <1>3, PTL DEF Spec

\* No row is left queued or working without a task or a handler about to
\* spawn one, provided that retries of one operation do not overlap and the
\* writes of handlers and callbacks succeed.
THEOREM OperationsManaged == Spec => []UnfinishedIsManaged
<1>1. (~ May("race") => OperationsInv) => UnfinishedIsManaged
  BY Zenon DEF OperationsInv, TypeOK, EntryHasTask, RowAndTask, UnfinishedIsManaged, Unfinished,
     Spawning, TaskStates, May
<1> QED BY OperationsInvAlways, <1>1, PTL

\* Unless retries of one operation overlap, no retry, late failure, cancellation
\* or restart changes the row of an operation that has ended well.
THEOREM SuccessIsFinal == Spec => CompletedStays
  BY OperationsInvAlways, PTL DEF CompletedStays, Kept

GateInv == TypeOK /\ EntryHasTask /\ GateHeldByWorker

\* Freeing the gate of one worker takes no other worker's gate.
LEMMA ReleaseKeepsOthers ==
    ASSUME TypeOK, GateHeldByWorker, NEW o \in Ops, task[o] \in {"working", "finished"},
           kind' = kind, gate' = Release(o), NEW how \in TaskStates \ {"working", "finished"},
           task' = [task EXCEPT ![o] = how]
    PROVE  GateHeldByWorker'
  BY OperationsAssumption DEF TypeOK, GateHeldByWorker, Release, MyLane, Lane, Lanes

\* Every step, also one whose database write fails, keeps gates and workers
\* in agreement.
LEMMA GateInvStep ==
    ASSUME GateInv, [Next]_vars
    PROVE  GateInv'
<1> USE OperationsAssumption DEF counters
<1>1. ASSUME NEW h \in Handlers, NEW o \in Ops, Start(h, o) PROVE GateInv'
  <2>1. TypeOK'
    BY <1>1, Zenon DEF GateInv, TypeOK, RowStates, TaskStates, Start, At
  <2>2. GateHeldByWorker'
    BY <1>1, Zenon DEF GateInv, TypeOK, GateHeldByWorker, MyLane, Lane, Lanes, Start
  <2>3. EntryHasTask'
    BY <1>1, Zenon DEF GateInv, TypeOK, EntryHasTask, Start, At
  <2> QED BY <2>1, <2>2, <2>3, Zenon DEF GateInv
<1>2. ASSUME NEW h \in Handlers, NEW o \in Ops, RetryRead(h, o) PROVE GateInv'
  <2>1. TypeOK'
    BY <1>2 DEF GateInv, TypeOK, RowStates, TaskStates, RetryRead, At
  <2>2. GateHeldByWorker'
    BY <1>2, Zenon DEF GateInv, TypeOK, GateHeldByWorker, MyLane, Lane, Lanes, RetryRead
  <2>3. EntryHasTask'
    BY <1>2, Zenon DEF GateInv, TypeOK, EntryHasTask, RetryRead, At
  <2> QED BY <2>1, <2>2, <2>3, Zenon DEF GateInv
<1>3. ASSUME NEW h \in Handlers, PhaseFails(h) PROVE GateInv'
  <2>1. TypeOK'
    BY <1>3, Zenon DEF GateInv, TypeOK, RowStates, TaskStates, PhaseFails, IdleRpc
  <2>2. GateHeldByWorker'
    BY <1>3, Zenon DEF GateInv, TypeOK, GateHeldByWorker, MyLane, Lane, Lanes, PhaseFails, IdleRpc
  <2>3. EntryHasTask'
    BY <1>3, Zenon DEF GateInv, TypeOK, EntryHasTask, PhaseFails, IdleRpc
  <2> QED BY <2>1, <2>2, <2>3, Zenon DEF GateInv
<1>4. ASSUME NEW h \in Handlers, RetryCheck(h) PROVE GateInv'
  <2>1. TypeOK'
    BY <1>4, Zenon DEF GateInv, TypeOK, RowStates, TaskStates, RetryCheck, Goto, IdleRpc, At
  <2>2. GateHeldByWorker'
    BY <1>4, Zenon DEF GateInv, TypeOK, GateHeldByWorker, MyLane, Lane, Lanes, RetryCheck, Goto,
       IdleRpc
  <2>3. EntryHasTask'
    BY <1>4, Zenon DEF GateInv, TypeOK, EntryHasTask, RetryCheck, Goto, IdleRpc, At
  <2> QED BY <2>1, <2>2, <2>3, Zenon DEF GateInv
<1>5. ASSUME NEW h \in Handlers, Requeue(h) PROVE GateInv'
  <2>1. TypeOK'
    BY <1>5, Zenon DEF GateInv, TypeOK, RowStates, TaskStates, Requeue, Goto, At
  <2>2. GateHeldByWorker'
    BY <1>5, Zenon DEF GateInv, TypeOK, GateHeldByWorker, MyLane, Lane, Lanes, Requeue, Goto, At
  <2>3. EntryHasTask'
    BY <1>5, Zenon DEF GateInv, TypeOK, EntryHasTask, Requeue, Goto, At
  <2> QED BY <2>1, <2>2, <2>3, Zenon DEF GateInv
<1>6. ASSUME NEW h \in Handlers, Spawn(h) PROVE GateInv'
  <2>1. TypeOK'
    BY <1>6 DEF GateInv, TypeOK, RowStates, TaskStates, Spawn, IdleRpc, At
  <2>2. GateHeldByWorker'
    BY <1>6 DEF GateInv, TypeOK, EntryHasTask, GateHeldByWorker, MyLane, Lane, Lanes, Spawn,
       IdleRpc, At
  <2>3. EntryHasTask'
    BY <1>6 DEF GateInv, TypeOK, EntryHasTask, Spawn, IdleRpc, At
  <2> QED BY <2>1, <2>2, <2>3, Zenon DEF GateInv
<1>7. ASSUME NEW o \in Ops, Cancel(o) PROVE GateInv'
  <2>1. TypeOK'
    BY <1>7, Zenon DEF GateInv, TypeOK, RowStates, TaskStates, Cancel
  <2>2. GateHeldByWorker'
    BY <1>7, Zenon DEF GateInv, TypeOK, GateHeldByWorker, MyLane, Lane, Lanes, Cancel
  <2>3. EntryHasTask'
    BY <1>7, Zenon DEF GateInv, TypeOK, EntryHasTask, Cancel
  <2> QED BY <2>1, <2>2, <2>3, Zenon DEF GateInv
<1>8. ASSUME NEW o \in Ops, Acquire(o) PROVE GateInv'
  <2>1. TypeOK'
    BY <1>8, Zenon DEF GateInv, TypeOK, RowStates, TaskStates, Acquire, MyLane, Lane, Lanes
  <2>2. GateHeldByWorker'
    BY <1>8, Zenon DEF GateInv, TypeOK, GateHeldByWorker, MyLane, Lane, Lanes, Acquire
  <2>3. EntryHasTask'
    BY <1>8, Zenon DEF GateInv, TypeOK, EntryHasTask, Acquire
  <2> QED BY <2>1, <2>2, <2>3, Zenon DEF GateInv
<1>9. ASSUME NEW o \in Ops, CancelWaiting(o) PROVE GateInv'
  <2>1. TypeOK'
    BY <1>9, Zenon DEF GateInv, TypeOK, RowStates, TaskStates, CancelWaiting, Marked, Mark
  <2>2. GateHeldByWorker'
    BY <1>9 DEF GateInv, TypeOK, GateHeldByWorker, MyLane, Lane, Lanes, CancelWaiting, Marked,
       Mark
  <2>3. EntryHasTask'
    BY <1>9, Zenon DEF GateInv, TypeOK, EntryHasTask, CancelWaiting, Marked, Mark
  <2> QED BY <2>1, <2>2, <2>3, Zenon DEF GateInv
<1>10. ASSUME NEW o \in Ops, Stage(o) PROVE GateInv'
  <2>1. TypeOK'
    BY <1>10, Zenon DEF GateInv, TypeOK, RowStates, TaskStates, Stage
  <2>2. GateHeldByWorker'
    BY <1>10, Zenon DEF GateInv, TypeOK, GateHeldByWorker, MyLane, Lane, Lanes, Stage
  <2>3. EntryHasTask'
    BY <1>10, Zenon DEF GateInv, TypeOK, EntryHasTask, Stage
  <2> QED BY <2>1, <2>2, <2>3, Zenon DEF GateInv
<1>11. ASSUME NEW o \in Ops, LastRow(o) PROVE GateInv'
  <2>1. TypeOK'
    BY <1>11, Zenon DEF GateInv, TypeOK, RowStates, TaskStates, LastRow
  <2>2. GateHeldByWorker'
    BY <1>11 DEF GateInv, TypeOK, GateHeldByWorker, MyLane, Lane, Lanes, LastRow
  <2>3. EntryHasTask'
    BY <1>11, Zenon DEF GateInv, TypeOK, EntryHasTask, LastRow
  <2> QED BY <2>1, <2>2, <2>3, Zenon DEF GateInv
<1>12. ASSUME NEW o \in Ops, Return(o) PROVE GateInv'
  <2>1. TypeOK'
    BY <1>12, ReleaseType, Zenon DEF GateInv, TypeOK, RowStates, TaskStates, Return
  <2>2. GateHeldByWorker'
    BY <1>12, ReleaseKeepsOthers, Zenon DEF GateInv, TypeOK, TaskStates, Return
  <2>3. EntryHasTask'
    BY <1>12, Zenon DEF GateInv, TypeOK, EntryHasTask, Return
  <2> QED BY <2>1, <2>2, <2>3, Zenon DEF GateInv
<1>13. ASSUME NEW o \in Ops, Fail(o) PROVE GateInv'
  <2>1. TypeOK'
    BY <1>13, ReleaseType DEF GateInv, TypeOK, RowStates, TaskStates, Fail, Marked, Mark
  <2>2. GateHeldByWorker'
    BY <1>13, ReleaseKeepsOthers, Zenon DEF GateInv, TypeOK, TaskStates, Fail, Marked, Mark
  <2>3. EntryHasTask'
    BY <1>13, Zenon DEF GateInv, TypeOK, EntryHasTask, Fail, Marked, Mark
  <2> QED BY <2>1, <2>2, <2>3, Zenon DEF GateInv
<1>14. ASSUME NEW o \in Ops, DropWorker(o, "dropped") PROVE GateInv'
  <2>1. TypeOK'
    BY <1>14, ReleaseType, Zenon DEF GateInv, TypeOK, RowStates, TaskStates, DropWorker
  <2>2. GateHeldByWorker'
    BY <1>14, ReleaseKeepsOthers, Zenon DEF GateInv, TypeOK, TaskStates, DropWorker
  <2>3. EntryHasTask'
    BY <1>14, Zenon DEF GateInv, TypeOK, EntryHasTask, DropWorker
  <2> QED BY <2>1, <2>2, <2>3, Zenon DEF GateInv
<1>15. ASSUME NEW o \in Ops, DropWorker(o, "panicked") PROVE GateInv'
  <2>1. TypeOK'
    BY <1>15, ReleaseType, Zenon DEF GateInv, TypeOK, RowStates, TaskStates, DropWorker
  <2>2. GateHeldByWorker'
    BY <1>15, ReleaseKeepsOthers, Zenon DEF GateInv, TypeOK, TaskStates, DropWorker
  <2>3. EntryHasTask'
    BY <1>15, Zenon DEF GateInv, TypeOK, EntryHasTask, DropWorker
  <2> QED BY <2>1, <2>2, <2>3, Zenon DEF GateInv
<1>16. ASSUME NEW o \in Ops, Callback(o) PROVE GateInv'
  <2>1. TypeOK'
    BY <1>16 DEF GateInv, TypeOK, RowStates, TaskStates, Callback, Marked, Mark
  <2>2. GateHeldByWorker'
    BY <1>16 DEF GateInv, TypeOK, GateHeldByWorker, MyLane, Lane, Lanes, Callback, Marked, Mark
  <2>3. EntryHasTask'
    BY <1>16, Zenon DEF GateInv, TypeOK, EntryHasTask, Callback, Marked, Mark
  <2> QED BY <2>1, <2>2, <2>3, Zenon DEF GateInv
<1>17. ASSUME NEW o \in Ops, DropGuard(o) PROVE GateInv'
  <2>1. TypeOK'
    BY <1>17, Zenon DEF GateInv, TypeOK, RowStates, TaskStates, DropGuard
  <2>2. GateHeldByWorker'
    BY <1>17 DEF GateInv, TypeOK, GateHeldByWorker, MyLane, Lane, Lanes, DropGuard
  <2>3. EntryHasTask'
    BY <1>17, Zenon DEF GateInv, TypeOK, EntryHasTask, DropGuard
  <2> QED BY <2>1, <2>2, <2>3, Zenon DEF GateInv
<1>18. ASSUME Restart PROVE GateInv'
  <2>1. TypeOK'
    BY <1>18 DEF GateInv, TypeOK, RowStates, TaskStates, Restart, Interrupted, IdleRpc
  <2>2. GateHeldByWorker'
    BY <1>18 DEF GateInv, TypeOK, GateHeldByWorker, MyLane, Lane, Lanes, Restart, Interrupted,
       IdleRpc
  <2>3. EntryHasTask'
    BY <1>18, Zenon DEF GateInv, TypeOK, EntryHasTask, Restart, Interrupted, IdleRpc
  <2> QED BY <2>1, <2>2, <2>3, Zenon DEF GateInv
<1>19. CASE UNCHANGED vars
  BY <1>19, Zenon DEF GateInv, TypeOK, EntryHasTask, GateHeldByWorker, MyLane, vars, agent
<1> QED
  BY <1>1, <1>2, <1>3, <1>4, <1>5, <1>6, <1>7, <1>8, <1>9, <1>10, <1>11, <1>12, <1>13, <1>14,
     <1>15, <1>16, <1>17, <1>18, <1>19, Zenon DEF Next, Step, Handle

\* Whatever fails or overlaps, a lane's gate is held exactly while one of its
\* workers runs, and the manager's entries and tasks live and die together.
THEOREM GatesFollowWorkers == Spec => [](TypeOK /\ EntryHasTask /\ GateHeldByWorker)
<1>1. Init => GateInv
  BY OperationsAssumption DEF Init, GateInv, TypeOK, EntryHasTask, GateHeldByWorker, MyLane,
     Lane, Lanes,
     IdleRpc, RowStates, TaskStates
<1>2. GateInv /\ [Next]_vars => GateInv'
  BY GateInvStep, Zenon
<1>3. GateInv => TypeOK /\ EntryHasTask /\ GateHeldByWorker
  BY Zenon DEF GateInv
<1> QED
  BY <1>1, <1>2, <1>3, PTL DEF Spec

=============================================================================
