--------------------------- MODULE LifecycleAgent ---------------------------
(***************************************************************************)
(* noland-lifecycle-agent: the daemon on a rented instance that waits for  *)
(* the user to be inactive, backs up the most used applications through    *)
(* the local state agent, verifies every backup, and only then asks the    *)
(* provider to stop or destroy the instance.                               *)
(*                                                                         *)
(* Three things run concurrently: the evaluation loop (one tick at a time, *)
(* `eng`), the ReloadConfig handlers of the status socket (`rpc`), and the *)
(* activity listeners (RecordActivity).  They share the SQLite database    *)
(* (state, activeRun, runStatus, rows: one action per transaction), the    *)
(* in-memory configuration and the inactivity latch.  A crash loses        *)
(* everything but the database and the files.                              *)
(***************************************************************************)
EXTENDS Naturals, FiniteSets

CONSTANTS
    Apps,           \* application identities
    Runs,           \* run identifiers that may be drawn (bound on runs)
    Handlers,       \* concurrent ReloadConfig connections
    NoRun, NoApp,   \* SQL NULL, and "no application in hand"
    Limit,          \* config.backup_app_limit
    Timeout,        \* config.timeout_ms(), in steps of the clock
    BACKUP_MAX_ATTEMPTS,  \* backup attempts per application, 3 in engine.rs
    BACKOFFS,       \* provider retries, BACKOFFS.len() = 3 in engine.rs
    MaxPolls,       \* polls before BACKUP_POLL_TIMEOUT_MS has passed
    MaxFaults,      \* bound on crashes and database errors together
    DbMayFail,      \* whose database calls may fail: a tick's, a reload's
    ProviderAction  \* config.provider_action: "destroy" or "stop"

ASSUME ConstantsAssumption ==
    /\ NoRun \notin Runs
    /\ NoApp \notin Apps
    /\ Limit \in Nat \ {0}
    /\ Timeout \in Nat \ {0}
    /\ BACKUP_MAX_ATTEMPTS \in Nat \ {0}
    /\ BACKOFFS \in Nat
    /\ MaxPolls \in Nat
    /\ MaxFaults \in Nat
    /\ DbMayFail \subseteq {"tick", "reload"}
    /\ ProviderAction \in {"destroy", "stop"}

LifecycleState ==
    {"DISABLED", "MONITORING", "TIMEOUT_REACHED", "SELECTING_APPLICATIONS",
     "BACKING_UP", "VERIFYING", "SHUTTING_DOWN", "BACKUP_FAILED_SAFE",
     "SHUTDOWN_RETRY_WAIT", "SHUTDOWN_FAILED_SAFE", "COMPLETED"}

run_is_active(s) ==
    s \in {"TIMEOUT_REACHED", "SELECTING_APPLICATIONS", "BACKING_UP",
           "VERIFYING", "SHUTTING_DOWN", "SHUTDOWN_RETRY_WAIT"}

\* The states a tick leaves alone.
TerminalStates == {"BACKUP_FAILED_SAFE", "SHUTDOWN_FAILED_SAFE", "COMPLETED"}

\* AutomaticBackupMode.  An operation ID stands for the mode it was started in.
Modes == {"complete", "personal"}
NoOp == "none"

VARIABLES
    state, activeRun,   \* the lifecycle_state row
    runStatus,          \* lifecycle_runs: status per run, "NONE" if no row
    rows,               \* backup_apps: per run and application, rank 0 if no row
    usage,              \* app_usage: applications with recorded usage
    alive,              \* the process runs
    enabled,            \* config.enabled in memory
    latched,            \* ActivityProcessor.timeout_latched
    idle,               \* clock - last_activity_monotonic_ms, up to Timeout
    eng,                \* the tick in progress: program counter and locals
    rpc, loaded,        \* per handler: program counter, and the config it read
    stored,             \* shared storage: modes of the backups committed, per application
    instance,           \* the rented machine: "up" or "down"
    faults,             \* crashes and database errors so far
    grace,              \* time since process start or disabled-to-enabled reload
    launches            \* operations started per run, application and mode

dbVars == <<state, activeRun, runStatus, rows, usage>>
memVars == <<alive, enabled, latched, idle>>
rpcVars == <<rpc, loaded>>
envVars == <<stored, instance>>
ghostVars == <<grace, launches>>
vars == <<dbVars, memVars, eng, rpcVars, envVars, faults, ghostVars>>

EnginePcs ==
    {"idle", "disabling", "usage", "snapshot", "latch", "latchDisabled",
     "toIdle", "timeout", "toSelect", "select", "load", "app", "probe",
     "start", "mark", "monitor", "verify", "verified", "failApp", "failRun",
     "provider", "calling", "retry", "complete"}

RpcPcs == {"idle", "lock", "reset", "resetNew", "init", "rearm", "disable"}

IdleEngine ==
    [pc |-> "idle", run |-> NoRun, app |-> NoApp, mode |-> NoOp,
     resumed |-> FALSE, polls |-> 0, tries |-> 0, cap |-> FALSE]

NoRow == [rank |-> 0, status |-> "PENDING", attempts |-> 0, op |-> NoOp]

RowType ==
    [rank : 0..Limit, status : {"PENDING", "RUNNING", "VERIFIED", "FAILED"},
     attempts : 0..BACKUP_MAX_ATTEMPTS, op : Modes \cup {NoOp}]

EngineType ==
    [pc : EnginePcs, run : Runs \cup {NoRun}, app : Apps \cup {NoApp},
     mode : Modes \cup {NoOp}, resumed : BOOLEAN, polls : 0..MaxPolls,
     tries : 0..BACKOFFS, cap : BOOLEAN]

Init ==
    /\ state = "DISABLED" /\ activeRun = NoRun
    /\ runStatus = [r \in Runs |-> "NONE"]
    /\ rows = [r \in Runs |-> [a \in Apps |-> NoRow]]
    /\ usage = {}
    /\ alive = FALSE /\ enabled = FALSE /\ latched = FALSE /\ idle = 0
    /\ eng = IdleEngine
    /\ rpc = [h \in Handlers |-> "idle"]
    /\ loaded = [h \in Handlers |-> FALSE]
    /\ stored = [a \in Apps |-> {}]
    /\ instance = "up"
    /\ faults = 0 /\ grace = 0
    /\ launches = [r \in Runs |-> [a \in Apps |-> [m \in Modes |-> 0]]]

-----------------------------------------------------------------------------
(* The database, db.rs.  Each operator is one transaction. *)

\* Mutation: only terminal states are left alone, active runs are not.
initialize_monitoring_always(on) ==
    IF state \in TerminalStates
    THEN UNCHANGED <<state, activeRun>>
    ELSE /\ state' = IF on THEN "MONITORING" ELSE "DISABLED"
         /\ activeRun' = NoRun

initialize_monitoring(on) ==
    IF run_is_active(state) \/ state \in TerminalStates
    THEN UNCHANGED <<state, activeRun>>
    ELSE /\ state' = IF on THEN "MONITORING" ELSE "DISABLED"
         /\ activeRun' = NoRun

\* Mutation: the WHERE clause on the state is missing.
reset_any_state == state' = "MONITORING" /\ activeRun' = NoRun

reset_terminal_failure ==
    IF state \in {"BACKUP_FAILED_SAFE", "SHUTDOWN_FAILED_SAFE"}
    THEN state' = "MONITORING" /\ activeRun' = NoRun
    ELSE UNCHANGED <<state, activeRun>>

transition(s) == state' = s /\ UNCHANGED activeRun

mark_shutdown_started(r) ==
    /\ runStatus' = [runStatus EXCEPT ![r] = "SHUTTING_DOWN"]
    /\ state' = IF activeRun = r THEN "SHUTTING_DOWN" ELSE state
    /\ UNCHANGED activeRun

complete_run(r) ==
    /\ runStatus' = [runStatus EXCEPT ![r] = "COMPLETED"]
    /\ state' = IF activeRun = r THEN "COMPLETED" ELSE state
    /\ UNCHANGED activeRun

fail_run(r, s) ==
    /\ runStatus' = IF r = NoRun THEN runStatus ELSE [runStatus EXCEPT ![r] = s]
    /\ state' = s
    /\ UNCHANGED activeRun

\* The frozen selection of a run, in rank order 1, 2, ...
Frozen(r) == {a \in Apps : rows[r][a].rank > 0}

\* A ranking of some applications with usage: ranks 1..k, none twice, k <= Limit.
IsRanking(rk) ==
    /\ \A a \in Apps : rk[a] > 0 => a \in usage
    /\ \A a, b \in Apps : rk[a] = rk[b] /\ rk[a] > 0 => a = b
    /\ \A a \in Apps, n \in 1..Limit : n < rk[a] => \E b \in Apps : rk[b] = n

create_run_with_frozen_apps(r, rk) ==
    /\ runStatus' = [runStatus EXCEPT ![r] = "BACKING_UP"]
    /\ rows' = [rows EXCEPT ![r] = [a \in Apps |-> [NoRow EXCEPT !.rank = rk[a]]]]
    /\ state' = "BACKING_UP" /\ activeRun' = r

mark_app_running(r, a, op) ==
    /\ rows[r][a].status # "VERIFIED" /\ rows[r][a].attempts < BACKUP_MAX_ATTEMPTS
    /\ rows' = [rows EXCEPT ![r][a] =
                   [@ EXCEPT !.status = "RUNNING", !.op = op,
                             !.attempts = rows[r][a].attempts + 1]]

record_start_failure(r, a) ==
    /\ rows[r][a].status # "VERIFIED" /\ rows[r][a].attempts < BACKUP_MAX_ATTEMPTS
    /\ rows' = [rows EXCEPT ![r][a] =
                   [@ EXCEPT !.status = "PENDING", !.op = NoOp,
                             !.attempts = rows[r][a].attempts + 1]]

\* Mutation: a retry starts from a fresh row.
mark_app_pending_afresh(r, a) ==
    rows' = [rows EXCEPT ![r][a] = [NoRow EXCEPT !.rank = rows[r][a].rank]]

mark_app_pending_retry(r, a) ==
    rows' = IF rows[r][a].status = "VERIFIED" THEN rows
            ELSE [rows EXCEPT ![r][a] = [@ EXCEPT !.status = "PENDING", !.op = NoOp]]

mark_app_failed(r, a) ==
    rows' = IF rows[r][a].status = "VERIFIED" THEN rows
            ELSE [rows EXCEPT ![r][a] = [@ EXCEPT !.status = "FAILED"]]

mark_app_verified(r, a) ==
    rows' = [rows EXCEPT ![r][a] = [@ EXCEPT !.status = "VERIFIED"]]

all_apps_verified(r) ==
    /\ Frozen(r) # {}
    /\ \A a \in Frozen(r) : rows[r][a].status = "VERIFIED"

-----------------------------------------------------------------------------
(* The evaluation loop: LifecycleEngine::tick.  Every await, and every gap   *)
(* between two database calls, is a place where handlers and faults step in. *)

At(p) == alive /\ eng.pc = p
Goto(p) == eng' = [eng EXCEPT !.pc = p]

\* The configuration is cloned here; the rest of an enabled tick uses the clone.
TickBegin ==
    /\ At("idle")
    /\ Goto(IF enabled THEN "usage" ELSE "disabling")
    /\ UNCHANGED <<dbVars, memVars, rpcVars, envVars, faults, ghostVars>>

TickDisabled ==
    /\ At("disabling")
    /\ initialize_monitoring(FALSE)
    /\ eng' = IdleEngine
    /\ UNCHANGED <<runStatus, rows, usage, memVars, rpcVars, envVars, faults, ghostVars>>

\* Sampling errors are only logged: then no application is added.
UpdateUsage ==
    /\ At("usage")
    /\ \E sampled \in SUBSET Apps : usage' = usage \cup sampled
    /\ Goto("snapshot")
    /\ UNCHANGED <<state, activeRun, runStatus, rows, memVars, rpcVars, envVars,
                   faults, ghostVars>>

\* An active state without a run is the error "active lifecycle state has no run ID".
TickSnapshot ==
    /\ At("snapshot")
    /\ eng' = IF run_is_active(state)
              THEN IF activeRun = NoRun THEN IdleEngine
                   ELSE [IdleEngine EXCEPT !.pc = "load", !.run = activeRun]
              ELSE IF state \in TerminalStates THEN IdleEngine
              ELSE [IdleEngine EXCEPT
                      !.pc = IF state = "MONITORING" THEN "latch" ELSE "latchDisabled"]
    /\ UNCHANGED <<dbVars, memVars, rpcVars, envVars, faults, ghostVars>>

latch_timeout_if_elapsed == latched \/ idle >= Timeout

TickLatch ==
    /\ At("latch") \/ At("latchDisabled")
    /\ latched' = latch_timeout_if_elapsed
    /\ eng' = IF latch_timeout_if_elapsed THEN [eng EXCEPT !.pc = "timeout"]
              ELSE IF eng.pc = "latch" THEN IdleEngine
              ELSE [eng EXCEPT !.pc = "toIdle"]
    /\ UNCHANGED <<dbVars, alive, enabled, idle, rpcVars, envVars, faults, ghostVars>>

TickMonitoring ==
    /\ At("toIdle")
    /\ transition("MONITORING")
    /\ eng' = IdleEngine
    /\ UNCHANGED <<runStatus, rows, usage, memVars, rpcVars, envVars, faults, ghostVars>>

TickTimeoutReached ==
    /\ At("timeout")
    /\ transition("TIMEOUT_REACHED")
    /\ Goto("toSelect")
    /\ UNCHANGED <<runStatus, rows, usage, memVars, rpcVars, envVars, faults, ghostVars>>

TickSelecting ==
    /\ At("toSelect")
    /\ transition("SELECTING_APPLICATIONS")
    /\ Goto("select")
    /\ UNCHANGED <<runStatus, rows, usage, memVars, rpcVars, envVars, faults, ghostVars>>

\* The candidate list could not be fetched, or no ranked application is in it.
SelectNothing ==
    /\ At("select")
    /\ fail_run(NoRun, "BACKUP_FAILED_SAFE")
    /\ eng' = IdleEngine
    /\ UNCHANGED <<rows, usage, memVars, rpcVars, envVars, faults, ghostVars>>

FreezeApps ==
    /\ At("select")
    /\ \E r \in Runs, rk \in [Apps -> 0..Limit] :
         /\ runStatus[r] = "NONE"
         /\ IsRanking(rk) /\ \E a \in Apps : rk[a] > 0
         /\ create_run_with_frozen_apps(r, rk)
         /\ eng' = [eng EXCEPT !.pc = "load", !.run = r]
    /\ UNCHANGED <<usage, memVars, rpcVars, envVars, faults, ghostVars>>

-----------------------------------------------------------------------------
(* LifecycleEngine::execute_run and backup_app *)

LoadCapability ==
    /\ At("load")
    /\ eng' = [eng EXCEPT !.pc = "app", !.cap = TRUE]
    /\ UNCHANGED <<dbVars, memVars, rpcVars, envVars, faults, ghostVars>>

\* The capability file is missing, malformed, expired or for another instance.
CapabilityUnusable ==
    /\ At("load")
    /\ fail_run(eng.run, "BACKUP_FAILED_SAFE")
    /\ eng' = IdleEngine
    /\ UNCHANGED <<rows, usage, memVars, rpcVars, envVars, faults, ghostVars>>

Row == rows[eng.run][eng.app]

\* The applications are taken in rank order; a failure ends the run, so every
\* application before the one in hand is verified.
NextApp ==
    /\ At("app")
    /\ \E a \in Frozen(eng.run) :
         /\ rows[eng.run][a].status # "VERIFIED"
         /\ \A b \in Frozen(eng.run) :
              rows[eng.run][b].rank < rows[eng.run][a].rank
                => rows[eng.run][b].status = "VERIFIED"
         /\ eng' = [eng EXCEPT !.app = a, !.polls = 0,
                      !.resumed = rows[eng.run][a].status = "RUNNING",
                      !.pc = IF rows[eng.run][a].status = "RUNNING"
                             THEN "monitor" ELSE "probe"]
    /\ UNCHANGED <<dbVars, memVars, rpcVars, envVars, faults, ghostVars>>

\* Mutation: one verified application is enough.
AppsDoneOnFirst ==
    /\ At("app")
    /\ \E a \in Frozen(eng.run) : rows[eng.run][a].status = "VERIFIED"
    /\ Goto("provider")
    /\ UNCHANGED <<dbVars, memVars, rpcVars, envVars, faults, ghostVars>>

AppsDone ==
    /\ At("app")
    /\ \A a \in Frozen(eng.run) : rows[eng.run][a].status = "VERIFIED"
    /\ Goto(IF all_apps_verified(eng.run) THEN "provider" ELSE "failRun")
    /\ UNCHANGED <<dbVars, memVars, rpcVars, envVars, faults, ghostVars>>

\* has_complete_baseline, then the head of the attempt loop.
ProbeBaseline ==
    /\ At("probe")
    /\ eng' = [eng EXCEPT
                 !.mode = IF "complete" \in stored[eng.app] THEN "personal" ELSE "complete",
                 !.pc = IF Row.attempts < BACKUP_MAX_ATTEMPTS THEN "start" ELSE "failRun"]
    /\ UNCHANGED <<dbVars, memVars, rpcVars, envVars, faults, ghostVars>>

ProbeFails ==
    /\ At("probe")
    /\ Goto("failRun")
    /\ UNCHANGED <<dbVars, memVars, rpcVars, envVars, faults, ghostVars>>

\* StartBackup reached the state agent.
Launch == launches' = [launches EXCEPT ![eng.run][eng.app][eng.mode] = @ + 1]

StartBackup ==
    /\ At("start")
    /\ Launch
    /\ Goto("mark")
    /\ UNCHANGED <<dbVars, memVars, rpcVars, envVars, faults, grace>>

\* An error or an empty operation ID; the request may have been served.
StartBackupFails ==
    /\ At("start")
    /\ Launch \/ UNCHANGED launches
    /\ record_start_failure(eng.run, eng.app)
    /\ Goto(IF Row.attempts + 1 >= BACKUP_MAX_ATTEMPTS THEN "failApp" ELSE "start")
    /\ UNCHANGED <<state, activeRun, runStatus, usage, memVars, rpcVars, envVars,
                   faults, grace>>

MarkRunning ==
    /\ At("mark")
    /\ mark_app_running(eng.run, eng.app, eng.mode)
    /\ eng' = [eng EXCEPT !.pc = "monitor", !.resumed = FALSE, !.polls = 0]
    /\ UNCHANGED <<state, activeRun, runStatus, usage, memVars, rpcVars, envVars,
                   faults, ghostVars>>

PollInProgress ==
    /\ At("monitor") /\ eng.polls < MaxPolls
    /\ eng' = [eng EXCEPT !.polls = @ + 1]
    /\ UNCHANGED <<dbVars, memVars, rpcVars, envVars, faults, ghostVars>>

\* COMPLETED with both IDs.  A personal backup with nothing new names its parent.
PollCompleted ==
    /\ At("monitor")
    /\ Row.op \in stored[eng.app] \/ Row.op = "personal"
    /\ transition("VERIFYING")
    /\ Goto("verify")
    /\ UNCHANGED <<runStatus, rows, usage, memVars, rpcVars, envVars, faults, ghostVars>>

\* The RPC failed, the operation ended badly or in an unknown state, an ID is
\* missing, the poll timed out, or the commit is not the one verified.
MonitorFails ==
    /\ At("monitor") \/ At("verify")
    /\ IF eng.resumed \/ Row.attempts < BACKUP_MAX_ATTEMPTS
       THEN mark_app_pending_retry(eng.run, eng.app)
       ELSE mark_app_failed(eng.run, eng.app)
    /\ Goto(IF eng.resumed THEN "probe"
            ELSE IF Row.attempts < BACKUP_MAX_ATTEMPTS THEN "start" ELSE "failRun")
    /\ UNCHANGED <<state, activeRun, runStatus, usage, memVars, rpcVars, envVars,
                   faults, ghostVars>>

VerifyCommit ==
    /\ At("verify")
    /\ transition("BACKING_UP")
    /\ Goto("verified")
    /\ UNCHANGED <<runStatus, rows, usage, memVars, rpcVars, envVars, faults, ghostVars>>

MarkVerified ==
    /\ At("verified")
    /\ mark_app_verified(eng.run, eng.app)
    /\ eng' = [eng EXCEPT !.pc = "app", !.app = NoApp, !.mode = NoOp,
                 !.resumed = FALSE, !.polls = 0]
    /\ UNCHANGED <<state, activeRun, runStatus, usage, memVars, rpcVars, envVars,
                   faults, ghostVars>>

MarkFailed ==
    /\ At("failApp")
    /\ mark_app_failed(eng.run, eng.app)
    /\ Goto("failRun")
    /\ UNCHANGED <<state, activeRun, runStatus, usage, memVars, rpcVars, envVars,
                   faults, ghostVars>>

FailBackup ==
    /\ At("failRun")
    /\ fail_run(eng.run, "BACKUP_FAILED_SAFE")
    /\ eng' = IdleEngine
    /\ UNCHANGED <<rows, usage, memVars, rpcVars, envVars, faults, ghostVars>>

-----------------------------------------------------------------------------
(* The provider loop of execute_run *)

\* capability.validate, and then either failure or mark_shutdown_started.
ProviderAttempt ==
    /\ At("provider")
    /\ IF eng.cap
       THEN mark_shutdown_started(eng.run) /\ Goto("calling")
       ELSE fail_run(eng.run, "SHUTDOWN_FAILED_SAFE") /\ eng' = IdleEngine
    /\ UNCHANGED <<rows, usage, memVars, rpcVars, envVars, faults, ghostVars>>

\* 2xx, or 404/410 for an instance that is already gone.
ProviderOk ==
    /\ At("calling")
    /\ instance' = "down"
    /\ Goto("complete")
    /\ UNCHANGED <<dbVars, memVars, rpcVars, stored, faults, ghostVars>>

\* A timeout or an error status; the action may have been carried out.
ProviderErr ==
    /\ At("calling")
    /\ instance' \in {instance, "down"}
    /\ Goto("retry")
    /\ UNCHANGED <<dbVars, memVars, rpcVars, stored, faults, ghostVars>>

\* Mutation: giving up is not recorded, so the next tick starts over.
ProviderRetryForgets ==
    /\ At("retry")
    /\ IF eng.tries < BACKOFFS
       THEN /\ transition("SHUTDOWN_RETRY_WAIT")
            /\ eng' = [eng EXCEPT !.pc = "provider", !.tries = @ + 1]
       ELSE eng' = IdleEngine /\ UNCHANGED <<state, activeRun>>
    /\ UNCHANGED <<runStatus, rows, usage, memVars, rpcVars, envVars, faults, ghostVars>>

ProviderRetry ==
    /\ At("retry")
    /\ IF eng.tries < BACKOFFS
       THEN /\ transition("SHUTDOWN_RETRY_WAIT")
            /\ eng' = [eng EXCEPT !.pc = "provider", !.tries = @ + 1]
            /\ UNCHANGED runStatus
       ELSE fail_run(eng.run, "SHUTDOWN_FAILED_SAFE") /\ eng' = IdleEngine
    /\ UNCHANGED <<rows, usage, memVars, rpcVars, envVars, faults, ghostVars>>

CompleteRun ==
    /\ At("complete")
    /\ complete_run(eng.run)
    /\ eng' = IdleEngine
    /\ UNCHANGED <<rows, usage, memVars, rpcVars, envVars, faults, ghostVars>>

-----------------------------------------------------------------------------
(* LifecycleEngine::reload_config, run by the ReloadConfig handlers *)

RpcGoto(h, p) == rpc' = [rpc EXCEPT ![h] = p]

\* The file, written by the desktop, is read before the configuration lock is taken.
ReloadLoad(h) ==
    /\ alive /\ rpc[h] = "idle"
    /\ \E on \in BOOLEAN : loaded' = [loaded EXCEPT ![h] = on]
    /\ RpcGoto(h, "lock")
    /\ UNCHANGED <<dbVars, memVars, eng, envVars, faults, ghostVars>>

\* Under the lock: swap the configuration, and remember if this enabled it.
ReloadSwap(h) ==
    /\ alive /\ rpc[h] = "lock"
    /\ enabled' = loaded[h]
    /\ loaded' = [loaded EXCEPT ![h] = FALSE]
    /\ RpcGoto(h, IF ~loaded[h] THEN "disable"
                  ELSE IF enabled THEN "reset" ELSE "resetNew")
    /\ grace' = IF loaded[h] /\ ~enabled THEN 0 ELSE grace
    /\ UNCHANGED <<dbVars, alive, latched, idle, eng, envVars, faults, launches>>

\* The new file moves a socket or the database: refused.
ReloadRefused(h) ==
    /\ alive /\ rpc[h] = "lock"
    /\ loaded' = [loaded EXCEPT ![h] = FALSE]
    /\ RpcGoto(h, "idle")
    /\ UNCHANGED <<dbVars, memVars, eng, envVars, faults, ghostVars>>

ReloadResetFailure(h) ==
    /\ alive /\ rpc[h] \in {"reset", "resetNew"}
    /\ reset_terminal_failure
    /\ RpcGoto(h, IF rpc[h] = "resetNew" THEN "init" ELSE "idle")
    /\ UNCHANGED <<runStatus, rows, usage, memVars, eng, loaded, envVars, faults, ghostVars>>

ReloadInitialize(h) ==
    /\ alive /\ rpc[h] = "init"
    /\ initialize_monitoring(TRUE)
    /\ RpcGoto(h, "rearm")
    /\ UNCHANGED <<runStatus, rows, usage, memVars, eng, loaded, envVars, faults, ghostVars>>

\* ActivityProcessor::reset_for_monitoring
ReloadRearm(h) ==
    /\ alive /\ rpc[h] = "rearm"
    /\ idle' = 0 /\ latched' = FALSE
    /\ RpcGoto(h, "idle")
    /\ UNCHANGED <<dbVars, alive, enabled, eng, loaded, envVars, faults, ghostVars>>

\* The snapshot before it asks for less than the transaction itself checks.
ReloadDisable(h) ==
    /\ alive /\ rpc[h] = "disable"
    /\ initialize_monitoring(FALSE)
    /\ RpcGoto(h, "idle")
    /\ UNCHANGED <<runStatus, rows, usage, memVars, eng, loaded, envVars, faults, ghostVars>>

-----------------------------------------------------------------------------
(* Activity and the clock *)

\* An accepted event moves the anchor; it never clears the latch.
RecordActivity ==
    /\ alive
    /\ idle' = 0
    /\ UNCHANGED <<dbVars, alive, enabled, latched, eng, rpcVars, envVars, faults, ghostVars>>

ClockTick ==
    /\ alive /\ (idle < Timeout \/ grace < Timeout)
    /\ idle' = IF idle < Timeout THEN idle + 1 ELSE idle
    /\ grace' = IF grace < Timeout THEN grace + 1 ELSE grace
    /\ UNCHANGED <<dbVars, alive, enabled, latched, eng, rpcVars, envVars, faults, launches>>

-----------------------------------------------------------------------------
(* Faults and restarts *)

Stopped ==
    /\ alive' = FALSE /\ enabled' = FALSE /\ latched' = FALSE /\ idle' = 0
    /\ eng' = IdleEngine
    /\ rpc' = [h \in Handlers |-> "idle"]
    /\ loaded' = [h \in Handlers |-> FALSE]

Crash ==
    /\ alive /\ faults < MaxFaults
    /\ faults' = faults + 1
    /\ Stopped
    /\ UNCHANGED <<dbVars, envVars, ghostVars>>

\* Carried out, the provider action takes the process down with the machine.
InstanceHalts ==
    /\ alive /\ instance = "down"
    /\ Stopped
    /\ UNCHANGED <<dbVars, envVars, faults, ghostVars>>

\* A stopped instance can be started again; a destroyed one cannot.
InstanceBoots ==
    /\ ~alive /\ instance = "down" /\ ProviderAction = "stop"
    /\ instance' = "up"
    /\ UNCHANGED <<dbVars, memVars, eng, rpcVars, stored, faults, ghostVars>>

\* main.rs: run, up to the spawning of the tasks.
Start ==
    /\ ~alive /\ instance = "up"
    /\ \E on \in BOOLEAN : initialize_monitoring(on) /\ enabled' = on
    /\ alive' = TRUE
    /\ latched' = run_is_active(state)
    /\ idle' = 0 /\ grace' = 0
    /\ UNCHANGED <<runStatus, rows, usage, eng, rpcVars, envVars, faults, launches>>

\* A database call of tick or execute_run fails: the tick ends with an error.
TickDbError ==
    /\ alive /\ "tick" \in DbMayFail /\ faults < MaxFaults
    /\ eng.pc \in {"disabling", "snapshot", "toIdle", "timeout", "toSelect", "select",
                   "load", "app", "failRun", "provider", "retry", "complete"}
    /\ faults' = faults + 1
    /\ eng' = IdleEngine
    /\ UNCHANGED <<dbVars, memVars, rpcVars, envVars, ghostVars>>

\* A database call of reload_config fails: the request ends with an error, after the
\* configuration was swapped and before what was still to come.
ReloadDbError(h) ==
    /\ alive /\ "reload" \in DbMayFail /\ faults < MaxFaults
    /\ rpc[h] \in {"reset", "resetNew", "init", "disable"}
    /\ faults' = faults + 1
    /\ RpcGoto(h, "idle")
    /\ UNCHANGED <<dbVars, memVars, eng, loaded, envVars, ghostVars>>

\* A database call of backup_app fails: execute_run turns it into a failed run.
BackupDbError ==
    /\ alive /\ "tick" \in DbMayFail /\ faults < MaxFaults
    /\ eng.pc \in {"start", "mark", "monitor", "verify", "verified", "failApp"}
    /\ faults' = faults + 1
    /\ Goto("failRun")
    /\ (eng.pc = "start" /\ Launch) \/ UNCHANGED launches
    /\ UNCHANGED <<dbVars, memVars, rpcVars, envVars, grace>>

-----------------------------------------------------------------------------
(* The capability's lifetime and the state agent *)

\* expires_at passes for the copy of the capability that the run holds.
ExpireCapability ==
    /\ eng.cap
    /\ eng' = [eng EXCEPT !.cap = FALSE]
    /\ UNCHANGED <<dbVars, memVars, rpcVars, envVars, faults, ghostVars>>

\* A started operation commits, whether or not anyone still waits for it.
BackupCommits(a, m) ==
    /\ m \notin stored[a] /\ \E r \in Runs : launches[r][a][m] > 0
    /\ stored' = [stored EXCEPT ![a] = @ \cup {m}]
    /\ UNCHANGED <<dbVars, memVars, eng, rpcVars, instance, faults, ghostVars>>

-----------------------------------------------------------------------------
EngineStep ==
    \/ TickBegin \/ TickDisabled \/ UpdateUsage \/ TickSnapshot \/ TickLatch
    \/ TickMonitoring \/ TickTimeoutReached \/ TickSelecting \/ SelectNothing
    \/ FreezeApps \/ LoadCapability \/ CapabilityUnusable \/ NextApp \/ AppsDone \/ ProbeBaseline
    \/ ProbeFails \/ StartBackup \/ StartBackupFails \/ MarkRunning
    \/ PollInProgress \/ PollCompleted \/ MonitorFails \/ VerifyCommit
    \/ MarkVerified \/ MarkFailed \/ FailBackup \/ ProviderAttempt \/ ProviderOk
    \/ ProviderErr \/ ProviderRetry \/ CompleteRun

HandlerStep(h) ==
    \/ ReloadSwap(h) \/ ReloadRefused(h) \/ ReloadResetFailure(h)
    \/ ReloadInitialize(h) \/ ReloadRearm(h) \/ ReloadDisable(h)

FaultStep ==
    \/ Crash \/ InstanceHalts \/ InstanceBoots \/ TickDbError \/ BackupDbError
    \/ \E h \in Handlers : ReloadDbError(h)

WorldStep ==
    \/ RecordActivity \/ ClockTick
    \/ ExpireCapability
    \/ \E a \in Apps, m \in Modes : BackupCommits(a, m)

Next ==
    \/ EngineStep
    \/ \E h \in Handlers : ReloadLoad(h) \/ HandlerStep(h)
    \/ Start
    \/ FaultStep
    \/ WorldStep

Spec == Init /\ [][Next]_vars

\* The evaluation loop keeps ticking (tokio interval), a handler that was
\* started runs to its end, and systemd restarts the process.  Nothing else is fair.
Fairness ==
    /\ WF_vars(EngineStep)
    /\ \A h \in Handlers : WF_vars(HandlerStep(h))
    /\ WF_vars(Start)

FairSpec == Spec /\ Fairness

-----------------------------------------------------------------------------
(* The abstract specification this one implements *)

Phase ==
    CASE state \in {"BACKING_UP", "VERIFYING"} -> "backing"
      [] state \in {"SHUTTING_DOWN", "SHUTDOWN_RETRY_WAIT"} -> "closing"
      [] state \in {"BACKUP_FAILED_SAFE", "SHUTDOWN_FAILED_SAFE"} -> "failed"
      [] state = "COMPLETED" -> "done"
      [] OTHER -> "watching"

Selected == IF activeRun = NoRun THEN {} ELSE Frozen(activeRun)
Verified == {a \in Selected : rows[activeRun][a].status = "VERIFIED"}

Safe == INSTANCE SafeShutdown WITH
    phase <- Phase, selected <- Selected, verified <- Verified,
    down <- (instance = "down")

\* Whatever the interleaving, crash or restart, the agent only ever does what
\* SafeShutdown allows: select, verify, close, power off, fail, re-arm.
ImplementsSafeShutdown == Safe!Spec

-----------------------------------------------------------------------------
(* Properties *)

\* Every column, field and program counter keeps to the values the code can give it;
\* the retry counters of db.rs and the provider loop stay within their limits.
TypeOK ==
    /\ state \in LifecycleState /\ activeRun \in Runs \cup {NoRun}
    /\ runStatus \in [Runs -> LifecycleState \cup {"NONE"}]
    /\ rows \in [Runs -> [Apps -> RowType]]
    /\ usage \in SUBSET Apps
    /\ alive \in BOOLEAN /\ enabled \in BOOLEAN /\ latched \in BOOLEAN
    /\ idle \in 0..Timeout
    /\ eng \in EngineType
    /\ rpc \in [Handlers -> RpcPcs] /\ loaded \in [Handlers -> BOOLEAN]
    /\ stored \in [Apps -> SUBSET Modes]
    /\ instance \in {"up", "down"}
    /\ faults \in 0..MaxFaults /\ grace \in 0..Timeout
    /\ launches \in [Runs -> [Apps -> [Modes -> Nat]]]

\* The provider is invoked, and the instance can be down, only when every
\* application frozen for a run is VERIFIED, and that run froze at least one
\* (execute_run checks all_apps_verified before its provider loop).
VerifiedBeforeShutdown ==
    /\ eng.pc \in {"provider", "calling", "retry", "complete"} => all_apps_verified(eng.run)
    /\ state \in {"SHUTTING_DOWN", "SHUTDOWN_RETRY_WAIT", "SHUTDOWN_FAILED_SAFE", "COMPLETED"}
         => activeRun # NoRun /\ all_apps_verified(activeRun)
    /\ instance = "down" => \E r \in Runs : all_apps_verified(r)

\* A VERIFIED application has a complete baseline in shared storage, whichever
\* mode its own backup ran in: what backup_app's probe of the catalog is for.
VerifiedHasBaseline ==
    \A r \in Runs, a \in Apps :
        rows[r][a].status = "VERIFIED" => "complete" \in stored[a]

\* Whatever reloads happen meanwhile, the run a tick is executing stays the
\* active run of the database and its state stays active
\* (initialize_monitoring and reset_terminal_failure leave active runs alone).
ReloadKeepsRun ==
    eng.run # NoRun => activeRun = eng.run /\ run_is_active(state)

\* A state of a created run always comes with that run and its selection; the
\* states before it never have one, so a new selection cannot resume an old run.
StateMatchesRun ==
    /\ state \in {"BACKING_UP", "VERIFYING"} => activeRun # NoRun /\ Frozen(activeRun) # {}
    /\ state \in {"DISABLED", "MONITORING", "TIMEOUT_REACHED", "SELECTING_APPLICATIONS"}
         => activeRun = NoRun

\* The operations started for one application in one run are bounded by its
\* persisted attempts; only a fault between StartBackup and mark_app_running
\* (or record_start_failure) can add one, as long as the machine stays up.
Launched(r, a) == launches[r][a]["complete"] + launches[r][a]["personal"]
Unmarked(r, a) == IF eng.pc = "mark" /\ eng.run = r /\ eng.app = a THEN 1 ELSE 0

LaunchesBounded ==
    ProviderAction = "destroy" /\ instance = "up" => \A r \in Runs, a \in Apps :
        Launched(r, a) <= rows[r][a].attempts + faults + Unmarked(r, a)

\* Within a run the frozen selection never changes, no attempt is taken back,
\* and a VERIFIED application stays VERIFIED (the triggers and guards of db.rs).
RunsOnlyAdvance ==
    [][\A r \in Runs : runStatus[r] # "NONE" =>
         \A a \in Apps :
            /\ rows'[r][a].rank = rows[r][a].rank
            /\ rows'[r][a].attempts >= rows[r][a].attempts
            /\ rows[r][a].status = "VERIFIED" => rows'[r][a].status = "VERIFIED"]_vars

\* A run that failed safe or completed is never worked on again, not even after
\* settings are saved and the agent restarts (reset_terminal_failure clears
\* active_run_id together with the state).
FinishedRunsStayFinished ==
    [][\A r \in Runs : runStatus[r] \in TerminalStates =>
         runStatus'[r] = runStatus[r] /\ rows'[r] = rows[r]]_vars

\* While the agent stays enabled, every run that froze its selection reaches a
\* terminal state or takes the instance down, crashes and restarts included.
RunsFinish ==
    <>[]enabled => []<>(~(run_is_active(state) /\ activeRun # NoRun) \/ instance = "down")

\* docs/automatic-backup-shutdown.md: an unfinished run resumes after a restart.
\* Also stated for the states before the run is created.
UnfinishedRunResumes ==
    <>[]enabled => []<>(~run_is_active(state) \/ instance = "down")

\* The agent's README: a full inactivity timeout is granted after process start
\* and after a disabled-to-enabled reload, once that reload has re-armed the clock
\* (reset_for_monitoring comes after the swap that publishes enabled = true, and is
\* not reached when the database fails a reload).  The latch a process takes over
\* from an unfinished run is not a new timeout.
FullTimeoutGranted ==
    [][alive /\ ~latched /\ latched' =>
         \/ grace >= Timeout
         \/ \E h \in Handlers : rpc[h] \in {"resetNew", "init", "rearm"}
         \/ "reload" \in DbMayFail]_vars

=============================================================================
