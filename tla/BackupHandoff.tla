--------------------------- MODULE BackupHandoff ---------------------------
(***************************************************************************)
(* The desktop's side of a backup, a restore or the seal before a stop:    *)
(* SharedStorageManager makes sure that the VM runs a state agent of this  *)
(* application's build, hands it an rclone session and the repository key, *)
(* starts an operation or retries an interrupted one, and polls it.        *)
(*                                                                         *)
(* Every command is a task of its own, and each of its calls to the agent  *)
(* is a separate SSH command that may fail or lose its answer.  The agent  *)
(* is reduced to the rows of its operations; StateOperations models how it *)
(* runs them.                                                              *)
(***************************************************************************)
EXTENDS Naturals, FiniteSets

CONSTANTS Tasks,       \* commands of the user for one instance
          Wishes,      \* the [kind, apps] a command may ask for
          MaxRows,     \* bound: operations the agent is asked for
          MaxBoots,    \* bound: installations of the agent under way; more are taken as one
          MaxMishaps,  \* bound: restarts of the agent, lost answers, failed saves
          Worlds,      \* the kinds of command in use, and which of "many" (selections),
                       \* "crash", "lost", "disk", "stale", "cancel" may happen
          NoRow

VARIABLES
    jobs,     \* each command: what it wants, where it is, the operation it follows
    marked,   \* RUNNING_BACKUPS holds the instance
    slot,     \* AppContext::active_agent_operation
    cancels,  \* cancel_shared_storage_operation: the operation it is about to cancel
    vm,       \* the agent's process, the build it is of, bootstraps under way
    rows,     \* the agent's operations
    halted,   \* the instance was stopped after a seal
    mishaps, world

handoff == <<jobs, marked, slot, cancels, vm, rows, halted, mishaps>>
vars == <<handoff, world>>

May(b) == b \in world
Mishap(b) == May(b) /\ mishaps < MaxMishaps /\ mishaps' = mishaps + 1

Kinds == {"backup", "restore", "seal"}
Succeeded(s) == s \in {"COMPLETED", "SEALED"}
Unfinished(s) == s \in {"QUEUED", "WORKING"}

NoWish == [kind |-> "backup", apps |-> {}]
IdleJob == [pc |-> "idle", wish |-> NoWish, left |-> {}, app |-> 0, op |-> NoRow,
            ended |-> {}, ok |-> FALSE]

At(t, pc) == jobs[t].pc = pc
Goto(t, pc) == jobs' = [jobs EXCEPT ![t].pc = pc]
\* The next of the selected applications or bundles, one after the other.
Chosen(j) ==
    LET a == CHOOSE b \in j.left : \A c \in j.left : b <= c
    IN  [j EXCEPT !.app = a, !.left = @ \ {a}, !.pc = "probe"]
\* trigger_backup goes through its last lines whatever happened, the others return.
Ends(t, ok) ==
    jobs' = [jobs EXCEPT ![t].ok = ok,
                         ![t].pc = IF jobs[t].wish.kind = "backup" THEN "unmark" ELSE "over"]

Init ==
    /\ world \in Worlds
    /\ jobs = [t \in Tasks |-> IdleJob]
    /\ marked = FALSE
    /\ slot = NoRow
    /\ cancels = NoRow
    /\ vm = [agent |-> "up", build |-> IF May("stale") THEN "old" ELSE "shipped", boots |-> 0,
             restarting |-> FALSE]
    /\ rows = <<>>
    /\ halted = FALSE
    /\ mishaps = 0

(***************************************************************************)
(* The commands, up to the agent.                                          *)
(***************************************************************************)

New(w) == [IdleJob EXCEPT !.wish = w, !.left = w.apps]
Wanted(t, w) == At(t, "idle") /\ ~ halted /\ May(w.kind) /\ (Cardinality(w.apps) > 1 => May("many"))

\* backup_selected_paths, or save_instance_to_shared_storage for everything.
BeginBackup(t, w) ==
    /\ w.kind = "backup" /\ Wanted(t, w)
    /\ jobs' = [jobs EXCEPT ![t] = [New(w) EXCEPT !.pc = "guard"]]
    /\ UNCHANGED <<marked, slot, cancels, vm, rows, halted, mishaps>>

\* restore_selected_paths has no guard.
BeginRestore(t, w) ==
    /\ w.kind = "restore" /\ Wanted(t, w)
    /\ jobs' = [jobs EXCEPT ![t] = Chosen(New(w))]
    /\ UNCHANGED <<marked, slot, cancels, vm, rows, halted, mishaps>>

\* seal_before_stop, when the instance is to be paused or destroyed.
BeginSeal(t, w) ==
    /\ w.kind = "seal" /\ Wanted(t, w)
    /\ jobs' = [jobs EXCEPT ![t] = Chosen(New(w))]
    /\ UNCHANGED <<marked, slot, cancels, vm, rows, halted, mishaps>>

\* The guard is looked at under the read lock ...
CheckGuard(t) ==
    /\ At(t, "guard")
    /\ Goto(t, IF marked THEN "over" ELSE "mark")
    /\ UNCHANGED <<marked, slot, cancels, vm, rows, halted, mishaps>>

\* ... and set under the write lock.
MarkRunning(t) ==
    /\ At(t, "mark")
    /\ marked' = TRUE
    /\ Goto(t, "running")
    /\ UNCHANGED <<slot, cancels, vm, rows, halted, mishaps>>

\* update_state to "running".  When it fails the command returns, the mark stays.
SaveRunning(t) ==
    /\ At(t, "running")
    /\ \/ jobs' = [jobs EXCEPT ![t] = Chosen(@)] /\ mishaps' = mishaps
       \/ Mishap("disk") /\ Goto(t, "over")
    /\ UNCHANGED <<marked, slot, cancels, vm, rows, halted>>

\* mint_session and master_key_hex, which ask nobody; no seal is ever retried.
Prepared(t) == IF jobs[t].wish.kind = "seal" THEN "start" ELSE "find"

\* ensure_rclone_installed, then ensure_state_agent: GetHealth and
\* prebuilt_deployment_matches.
ProbeAgent(t) ==
    /\ At(t, "probe")
    /\ Goto(t, IF vm.agent = "up" /\ vm.build = "shipped" THEN Prepared(t) ELSE "launch")
    /\ UNCHANGED <<marked, slot, cancels, vm, rows, halted, mishaps>>

\* The sources are packed and copied, and the installation is left running
\* detached from the SSH session.
LaunchBootstrap(t) ==
    /\ At(t, "launch") /\ ~ halted
    /\ vm' = [vm EXCEPT !.boots = IF @ < MaxBoots THEN @ + 1 ELSE @]
    /\ Goto(t, "booting")
    /\ UNCHANGED <<marked, slot, cancels, rows, halted, mishaps>>

\* wait_for_bootstrap: any agent with the right API version will do.
BootPoll(t) ==
    /\ At(t, "booting")
    /\ vm.agent = "up"
    /\ Goto(t, Prepared(t))
    /\ UNCHANGED <<marked, slot, cancels, vm, rows, halted, mishaps>>

\* Twenty minutes are over, or the installation ended with an error.
BootTimeout(t) ==
    /\ At(t, "booting")
    /\ Ends(t, FALSE)
    /\ UNCHANGED <<marked, slot, cancels, vm, rows, halted, mishaps>>

\* An SSH command, rclone's installation, the profile or the bootstrap fails.
PrepareFails(t) ==
    /\ jobs[t].pc \in {"probe", "launch", "booting", "find", "start", "retry"}
    /\ Mishap("lost")
    /\ Ends(t, FALSE)
    /\ UNCHANGED <<marked, slot, cancels, vm, rows, halted>>

(***************************************************************************)
(* The operation.                                                          *)
(***************************************************************************)

Matches(o, t) ==
    /\ rows[o].kind = jobs[t].wish.kind /\ rows[o].app = jobs[t].app
    /\ rows[o].state = "INTERRUPTED"

\* find_interrupted_operation: ListRecentOperations, newest first.
Find(t) ==
    /\ At(t, "find")
    /\ vm.agent = "up"
    /\ \/ \E o \in DOMAIN rows :
            /\ Matches(o, t)
            /\ \A p \in DOMAIN rows : p > o => ~ Matches(p, t)
            /\ jobs' = [jobs EXCEPT ![t].op = o, ![t].pc = "retry"]
       \/ (\A o \in DOMAIN rows : ~ Matches(o, t)) /\ Goto(t, "start")
    /\ UNCHANGED <<marked, slot, cancels, vm, rows, halted, mishaps>>

\* StartBackup, StartRestore or StartSeal: the agent queues a new operation.
StartOp(t) ==
    /\ At(t, "start")
    /\ vm.agent = "up" /\ Cardinality(DOMAIN rows) < MaxRows
    /\ LET o == Cardinality(DOMAIN rows) + 1
       IN  /\ rows' = [p \in 1..o |->
                        IF p < o THEN rows[p]
                        ELSE [kind |-> jobs[t].wish.kind, app |-> jobs[t].app, state |-> "QUEUED",
                              build |-> vm.build]]
           /\ jobs' = [jobs EXCEPT ![t].op = o, ![t].pc = "answer"]
    /\ UNCHANGED <<marked, slot, cancels, vm, halted, mishaps>>

\* RetryOperation: refused unless the operation can still be retried.
RetryOp(t) ==
    /\ At(t, "retry")
    /\ vm.agent = "up"
    /\ IF rows[jobs[t].op].state \in {"FAILED", "CANCELLED", "INTERRUPTED"}
       THEN /\ rows' = [rows EXCEPT ![jobs[t].op].state = "QUEUED"]
            /\ Goto(t, "answer")
       ELSE Ends(t, FALSE) /\ rows' = rows
    /\ UNCHANGED <<marked, slot, cancels, vm, halted, mishaps>>

\* No agent answers on the socket, or it takes no more operations; no SSH
\* command reaches a machine that has been stopped.
NoAgent(t) ==
    /\ \/ jobs[t].pc \in {"find", "start", "retry"} /\ vm.agent = "down"
       \/ At(t, "launch") /\ halted
       \/ At(t, "start") /\ Cardinality(DOMAIN rows) = MaxRows
    /\ Ends(t, FALSE)
    /\ UNCHANGED <<marked, slot, cancels, vm, rows, halted, mishaps>>

\* The answer with the operation id arrives, and wait_for_agent_operation puts
\* the operation in the one slot that the cancel command reads.
Answer(t) ==
    /\ At(t, "answer")
    /\ slot' = jobs[t].op
    /\ Goto(t, "wait")
    /\ UNCHANGED <<marked, cancels, vm, rows, halted, mishaps>>

\* The answer is lost: the operation runs, and nobody follows it.
LoseAnswer(t) ==
    /\ At(t, "answer")
    /\ Mishap("lost")
    /\ Ends(t, FALSE)
    /\ UNCHANGED <<marked, slot, cancels, vm, rows, halted>>

Clears(t) == IF slot = jobs[t].op THEN NoRow ELSE slot

\* Mutant: the operation in the slot is polled.
FollowedBySlot(t) == IF slot = NoRow THEN jobs[t].op ELSE slot

Followed(t) == jobs[t].op

\* The next selection or the end.  After a restore the Steam manifest is
\* written (ensure_restored_steam_manifest), which may fail; after a seal
\* require_successful_seal looks at the state once more.
Proceed(t) ==
    LET done == [jobs[t] EXCEPT !.ended = @ \cup {jobs[t].op}]
        last == IF done.wish.kind = "backup" THEN "unmark" ELSE "over"
    IN  \E ok \in (IF done.wish.kind = "restore" THEN BOOLEAN ELSE {TRUE}) :
          jobs' = [jobs EXCEPT ![t] = IF ok /\ done.left # {} THEN Chosen(done)
                                      ELSE [done EXCEPT !.ok = ok, !.pc = last]]

\* GetOperationStatus once a second.  COMPLETED and SEALED end the wait well,
\* FAILED and CANCELLED end it badly; every other state is polled again.
Poll(t) ==
    /\ At(t, "wait") /\ vm.agent = "up"
    /\ LET s == rows[Followed(t)].state
       IN  \/ Succeeded(s) /\ Proceed(t)
           \/ s \in {"FAILED", "CANCELLED"} /\ Ends(t, FALSE)
    /\ slot' = Clears(t)
    /\ UNCHANGED <<marked, cancels, vm, rows, halted, mishaps>>

\* Mutant: an interrupted operation is waited for without a limit.
TimeoutUnlessInterrupted(t) ==
    /\ At(t, "wait") /\ rows[jobs[t].op].state # "INTERRUPTED"
    /\ slot' = Clears(t)
    /\ Ends(t, FALSE)
    /\ UNCHANGED <<marked, cancels, vm, rows, halted, mishaps>>

\* Two hours are over, or a call of the poll fails: the first failure ends the wait.
Timeout(t) ==
    /\ At(t, "wait")
    /\ slot' = Clears(t)
    /\ Ends(t, FALSE)
    /\ UNCHANGED <<marked, cancels, vm, rows, halted, mishaps>>

\* The mark is taken away and the outcome saved; a failed save is an error of
\* the command.
Unmark(t) ==
    /\ At(t, "unmark")
    /\ marked' = FALSE
    /\ \/ Goto(t, "over") /\ mishaps' = mishaps
       \/ Mishap("disk") /\ jobs' = [jobs EXCEPT ![t].pc = "over", ![t].ok = FALSE]
    /\ UNCHANGED <<slot, cancels, vm, rows, halted>>

\* The command's caller has its answer: after a seal that went well
\* pause_instance or destroy_instance goes on and stops the machine.
Return(t) ==
    /\ At(t, "over")
    /\ halted' = (halted \/ (jobs[t].wish.kind = "seal" /\ jobs[t].ok))
    /\ vm' = IF halted' THEN [vm EXCEPT !.agent = "down", !.boots = 0, !.restarting = FALSE] ELSE vm
    /\ jobs' = [jobs EXCEPT ![t] = IdleJob]
    /\ UNCHANGED <<marked, slot, cancels, rows, mishaps>>

\* cancel_shared_storage_operation reads the slot ...
CancelRead ==
    /\ May("cancel") /\ cancels = NoRow /\ slot # NoRow
    /\ cancels' = slot
    /\ UNCHANGED <<jobs, marked, slot, vm, rows, halted, mishaps>>

\* ... and sends CancelOperation, which an operation that has ended refuses.
CancelSend ==
    /\ cancels # NoRow
    /\ rows' = IF vm.agent = "up" /\ Unfinished(rows[cancels].state)
               THEN [rows EXCEPT ![cancels].state = "CANCELLED"] ELSE rows
    /\ cancels' = NoRow
    /\ UNCHANGED <<jobs, marked, slot, vm, halted, mishaps>>

(***************************************************************************)
(* The VM.                                                                 *)
(***************************************************************************)
Lane(o) == IF rows[o].kind = "seal" THEN "control" ELSE "transfer"

\* The agent works at one operation of a lane at a time.
Work(o) ==
    /\ ~ halted /\ vm.agent = "up" /\ rows[o].state = "QUEUED"
    /\ \A p \in DOMAIN rows : Lane(p) = Lane(o) => rows[p].state # "WORKING"
    /\ rows' = [rows EXCEPT ![o].state = "WORKING"]
    /\ UNCHANGED <<jobs, marked, slot, cancels, vm, halted, mishaps>>

Finish(o) ==
    /\ ~ halted /\ vm.agent = "up" /\ rows[o].state = "WORKING"
    /\ \E s \in {IF rows[o].kind = "seal" THEN "SEALED" ELSE "COMPLETED", "FAILED"} :
         rows' = [rows EXCEPT ![o].state = s]
    /\ UNCHANGED <<jobs, marked, slot, cancels, vm, halted, mishaps>>

\* The bootstrap, one at a time by its lock, stops the agent's service ...
BootstrapStops ==
    /\ vm.boots > 0 /\ ~ vm.restarting
    /\ vm' = [vm EXCEPT !.agent = "down", !.restarting = TRUE]
    /\ UNCHANGED <<jobs, marked, slot, cancels, rows, halted, mishaps>>

\* ... and starts the new build, whose recovery marks what was unfinished.
BootstrapStarts ==
    /\ vm.restarting
    /\ vm' = [agent |-> "up", build |-> "shipped", boots |-> vm.boots - 1, restarting |-> FALSE]
    /\ rows' = [o \in DOMAIN rows |->
                 [rows[o] EXCEPT !.state = IF Unfinished(@) THEN "INTERRUPTED" ELSE @]]
    /\ UNCHANGED <<jobs, marked, slot, cancels, halted, mishaps>>

\* The agent dies; systemd starts it again.
AgentCrash ==
    /\ vm.agent = "up" /\ Mishap("crash")
    /\ vm' = [vm EXCEPT !.agent = "down"]
    /\ UNCHANGED <<jobs, marked, slot, cancels, rows, halted>>

AgentRestart ==
    /\ vm.agent = "down" /\ ~ vm.restarting /\ ~ halted
    /\ vm' = [vm EXCEPT !.agent = "up"]
    /\ rows' = [o \in DOMAIN rows |->
                 [rows[o] EXCEPT !.state = IF Unfinished(@) THEN "INTERRUPTED" ELSE @]]
    /\ UNCHANGED <<jobs, marked, slot, cancels, halted, mishaps>>

\* Another machine is rented; the marks are kept per instance.
Rent ==
    /\ halted /\ cancels = NoRow
    /\ \A t \in Tasks : At(t, "idle")
    /\ halted' = FALSE /\ marked' = FALSE /\ rows' = <<>>
    /\ vm' = [agent |-> "up", build |-> "shipped", boots |-> 0, restarting |-> FALSE]
    /\ UNCHANGED <<jobs, slot, cancels, mishaps>>

Goes(t) ==
    \/ CheckGuard(t) \/ MarkRunning(t) \/ SaveRunning(t) \/ ProbeAgent(t)
    \/ LaunchBootstrap(t) \/ BootPoll(t) \/ BootTimeout(t) \/ PrepareFails(t) \/ Find(t) \/ StartOp(t)
    \/ RetryOp(t) \/ NoAgent(t) \/ Answer(t) \/ LoseAnswer(t) \/ Poll(t) \/ Timeout(t)
    \/ Unmark(t) \/ Return(t)

Vm == BootstrapStops \/ BootstrapStarts \/ AgentCrash \/ AgentRestart

Step ==
    \/ \E t \in Tasks : Goes(t) \/ \E w \in Wishes : BeginBackup(t, w) \/ BeginRestore(t, w) \/ BeginSeal(t, w)
    \/ CancelRead \/ CancelSend \/ Vm \/ Rent
    \/ \E o \in DOMAIN rows : Work(o) \/ Finish(o)

Next == Step /\ UNCHANGED world

Spec == Init /\ [][Next]_vars

\* Every step of a command has a time-out, the detached installation and
\* systemd go on by themselves.  The agent may take for ever.
Fairness ==
    /\ \A t \in Tasks : WF_handoff(Goes(t))
    /\ WF_handoff(BootstrapStops \/ BootstrapStarts \/ AgentRestart)

FairSpec == Spec /\ Fairness

(***************************************************************************)
(* Properties.                                                             *)
(***************************************************************************)

\* A command that reports success has, for each application or bundle it was
\* given, an operation of its own kind that the agent completed, whatever other
\* commands, cancellations, lost answers and restarts of the agent there were;
\* and the instance is stopped only after a seal that the agent completed.
OkMeansDone ==
    /\ \A t \in Tasks : (At(t, "over") /\ jobs[t].ok) =>
         \A a \in jobs[t].wish.apps : \E o \in jobs[t].ended :
            rows[o].kind = jobs[t].wish.kind /\ rows[o].app = a /\ Succeeded(rows[o].state)
    /\ halted => \E o \in DOMAIN rows : rows[o].kind = "seal" /\ rows[o].state = "SEALED"

\* Every command ends, and then another backup can be started: nobody waits
\* for ever for an agent that is down or for an interrupted operation, and the
\* mark of a backup goes with it.  Only a failed save of the "running" status
\* leaves the mark behind.  A mark that has to go:
Marked == marked /\ ~May("disk")
=============================================================================
