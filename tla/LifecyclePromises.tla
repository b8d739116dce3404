------------------------- MODULE LifecyclePromises -------------------------
(***************************************************************************)
(* What the lifecycle agent's inductive invariant (LifecycleProofs) makes  *)
(* provable beyond safety of the shutdown itself: the agent implements     *)
(* SafeShutdown, a timeout is granted in full, a verified application has  *)
(* a baseline in storage, and operations are started once per attempt.     *)
(***************************************************************************)
EXTENDS LifecycleProofs

-----------------------------------------------------------------------------
(* The agent implements SafeShutdown *)

\* Only a running process is inside a tick, and a tick completes its run only
\* after the provider took the machine down.
DownInv ==
    /\ ~alive => eng.pc = "idle"
    /\ eng.pc = "complete" => instance = "down"

\* ProviderOk is the only way to CompleteRun, and a machine that is down comes
\* up again only without the process.
LEMMA DownStep ==
    ASSUME IInv, DownInv, [Next]_vars
    PROVE  DownInv'
<1>0. eng \in EngineType /\ IdleEngine.pc = "idle"
  BY Zenon DEF IInv, TypeOK, IdleEngine
<1> USE DEF DownInv, memVars, envVars, At, Goto
<1>1. CASE TickDisabled \/ TickMonitoring \/ SelectNothing
  BY <1>0, <1>1, Zenon DEF TickDisabled, TickMonitoring, SelectNothing
<1>1b. CASE TickBegin \/ UpdateUsage \/ TickTimeoutReached \/ TickSelecting
  BY <1>0, <1>1b DEF EngineType, TickBegin, UpdateUsage, TickTimeoutReached, TickSelecting
<1>1c. CASE TickLatch
  <2>1. eng'.pc \in {"idle", "timeout", "toIdle"}
    BY <1>0, <1>1c, Zenon DEF TickLatch, EngineType
  <2> QED
    BY <1>1c, <2>1, Zenon DEF TickLatch
<1>1a. CASE TickSnapshot
  <2>1. eng'.pc \in {"idle", "load", "latch", "latchDisabled"}
    BY <1>1a, Zenon DEF TickSnapshot, IdleEngine
  <2> QED
    BY <1>1a, <2>1, Zenon DEF TickSnapshot
<1>2. CASE FreezeApps \/ LoadCapability \/ CapabilityUnusable \/ NextApp \/ AppsDone
  BY <1>0, <1>2, Zenon DEF EngineType, FreezeApps, LoadCapability, CapabilityUnusable, NextApp, AppsDone
<1>3. CASE ProbeBaseline \/ ProbeFails \/ StartBackup \/ StartBackupFails \/ MarkRunning
  BY <1>0, <1>3, Zenon DEF EngineType, ProbeBaseline, ProbeFails, StartBackup, StartBackupFails, MarkRunning
<1>4. CASE PollInProgress \/ PollCompleted \/ MonitorFails \/ VerifyCommit \/ MarkVerified
  BY <1>0, <1>4, Zenon DEF EngineType, PollInProgress, PollCompleted, MonitorFails, VerifyCommit, MarkVerified
<1>5. CASE MarkFailed \/ FailBackup
  BY <1>0, <1>5, Zenon DEF EngineType, MarkFailed, FailBackup
<1>6. CASE ProviderAttempt \/ ProviderOk \/ ProviderErr \/ ProviderRetry \/ CompleteRun
  BY <1>0, <1>6, Zenon DEF EngineType, ProviderAttempt, ProviderOk, ProviderErr, ProviderRetry, CompleteRun
<1>7. ASSUME NEW h \in Handlers, ReloadLoad(h) \/ HandlerStep(h) PROVE DownInv'
  BY <1>7, Zenon DEF ReloadLoad, HandlerStep, ReloadSwap, ReloadRefused, ReloadResetFailure,
     ReloadInitialize, ReloadRearm, ReloadDisable
<1>8. CASE Start \/ Crash \/ InstanceHalts \/ InstanceBoots \/ TickDbError
  BY <1>0, <1>8, Zenon DEF Start, Crash, InstanceHalts, InstanceBoots, TickDbError, Stopped
<1>9. ASSUME NEW h \in Handlers, ReloadDbError(h) PROVE DownInv'
  BY <1>9, Zenon DEF ReloadDbError
<1>10. CASE BackupDbError \/ WorldStep
  BY <1>0, <1>10, Zenon DEF EngineType, BackupDbError, WorldStep, RecordActivity, ClockTick,
     ExpireCapability, BackupCommits
<1>11. CASE UNCHANGED vars
  BY <1>11, Zenon DEF vars
<1> QED
  BY <1>1, <1>1a, <1>1b, <1>1c, <1>2, <1>3, <1>4, <1>5, <1>6, <1>7, <1>8, <1>9, <1>10, <1>11, Zenon
  DEF Next, EngineStep, FaultStep

\* What the abstract specification sees is unchanged when the phase, the active
\* run and the machine are, and no row is verified.
LEMMA MapKept ==
    ASSUME IInv, Phase' = Phase, UNCHANGED <<activeRun, instance>>, rows' = rows \/ KeepsRows
    PROVE  UNCHANGED Safe!vars
<1>1. CASE activeRun = NoRun
  BY <1>1, Zenon DEF Selected, Verified, Safe!vars
<1>2. CASE activeRun \in Runs
  <2>1. Frozen(activeRun)' = Frozen(activeRun)
    BY <1>2, Zenon DEF Frozen, KeepsRows
  <2>2. Selected' = Selected
    BY <2>1, Zenon DEF Selected
  <2>3. \A a \in Apps : rows'[activeRun][a].status = "VERIFIED" <=> rows[activeRun][a].status = "VERIFIED"
    BY <1>2, Zenon DEF KeepsRows
  <2>4. Selected \subseteq Apps
    BY Zenon DEF Selected, Frozen
  <2>5. Verified' = Verified
    BY <2>2, <2>3, <2>4, Zenon DEF Verified
  <2> QED
    BY <2>2, <2>5, Zenon DEF Safe!vars
<1> QED
  BY <1>1, <1>2, Zenon DEF IInv, TypeOK

\* The phases of the states, and the run that comes with them.
LEMMA PhaseOf ==
    ASSUME IInv
    PROVE  /\ state \in WatchingStates => Phase = "watching"
           /\ activeRun # NoRun /\ run_is_active(state) => Phase \in {"backing", "closing"}
           /\ Phase = "watching" => activeRun = NoRun
           /\ state \in {"SHUTTING_DOWN", "SHUTDOWN_RETRY_WAIT"} <=> Phase = "closing"
           /\ state \in {"BACKUP_FAILED_SAFE", "SHUTDOWN_FAILED_SAFE"} <=> Phase = "failed"
           /\ state \in {"BACKING_UP", "VERIFYING"} <=> Phase = "backing"
BY Zenon DEF IInv, TypeOK, StateMatchesRun, WatchingStates, LifecycleState, Phase, run_is_active

\* Transactions that watch or are refused change nothing the abstract
\* specification sees; the reset of a failed run re-arms it.
LEMMA ResetMaps ==
    ASSUME IInv, IInv', UNCHANGED <<rows, instance>>,
           (\E on \in BOOLEAN : initialize_monitoring(on)) \/ reset_terminal_failure
    PROVE  [Safe!Next]_(Safe!vars)
<1>1. CASE UNCHANGED <<state, activeRun>>
  BY <1>1, MapKept, Zenon DEF Phase
<1>2. CASE /\ state \in {"DISABLED", "MONITORING"}
           /\ state' \in {"DISABLED", "MONITORING"} /\ activeRun' = NoRun
  <2>1. Phase = "watching" /\ Phase' = "watching" /\ activeRun = NoRun
    BY <1>2, Zenon DEF Phase, IInv, StateMatchesRun
  <2> QED
    BY <1>2, <2>1, MapKept, Zenon
<1>3. CASE /\ state \in {"BACKUP_FAILED_SAFE", "SHUTDOWN_FAILED_SAFE"}
           /\ state' = "MONITORING" /\ activeRun' = NoRun
  <2>1. Phase = "failed" /\ Phase' = "watching" /\ Selected' = {} /\ Verified' = {}
    BY <1>3, Zenon DEF Phase, Selected, Verified
  <2>2. Safe!Rearm
    BY <2>1, Zenon DEF Safe!Rearm
  <2> QED
    BY <2>2, Zenon DEF Safe!Next
<1>4. state \in LifecycleState
  BY Zenon DEF IInv, TypeOK
<1> QED
  BY <1>1, <1>2, <1>3, <1>4, Zenon DEF initialize_monitoring, reset_terminal_failure, run_is_active,
     TerminalStates, LifecycleState

\* A run that fails, in whatever phase it is, fails in the abstract specification.
LEMMA FailMaps ==
    ASSUME IInv, NEW s \in {"BACKUP_FAILED_SAFE", "SHUTDOWN_FAILED_SAFE"}, run_is_active(state),
           state' = s, UNCHANGED <<activeRun, rows, instance>>
    PROVE  Safe!Next
<1>1. Phase \in {"watching", "backing", "closing"} /\ Phase' = "failed"
  BY Zenon DEF Phase, run_is_active, IInv, TypeOK, LifecycleState
<1>2. Selected' = Selected /\ Verified' = Verified
  BY Zenon DEF Selected, Verified, Frozen
<1> QED
  BY <1>1, <1>2, Zenon DEF Safe!Next, Safe!Fail

\* The selection of a new run.
LEMMA SelectMaps ==
    ASSUME IInv, IInv', FreezeApps
    PROVE  Safe!Next
<1>1. PICK r \in Runs, rk \in [Apps -> 0..Limit] :
         /\ \E a \in Apps : rk[a] > 0
         /\ create_run_with_frozen_apps(r, rk)
  BY Zenon DEF FreezeApps
<1>2. Phase = "watching" /\ Phase' = "backing"
  BY <1>1, Zenon DEF FreezeApps, At, Phase, IInv, EngineInv, create_run_with_frozen_apps
<1>3. activeRun' = r /\ r # NoRun /\ UNCHANGED instance
  BY <1>1, ConstantsAssumption, Zenon DEF create_run_with_frozen_apps, FreezeApps, envVars
<1>4. \A a \in Apps : rows'[r][a].rank = rk[a] /\ rows'[r][a].status = "PENDING"
  BY <1>1, Zenon DEF create_run_with_frozen_apps, IInv, TypeOK, NoRow
<1>5. Selected' = {a \in Apps : rk[a] > 0}
  BY <1>3, <1>4, Zenon DEF Selected, Frozen
<1>6. Verified' = {}
  BY <1>3, <1>4, <1>5, Zenon DEF Verified
<1>7. Safe!Select
  <2>0. Selected' \in SUBSET Apps /\ Selected' # {}
    BY <1>1, <1>5, Zenon
  <2>1. Selected' \in (SUBSET Apps) \ {{}}
    BY <2>0, Zenon
  <2>2. (instance = "down")' = (instance = "down")
    BY <1>3, Zenon
  <2> QED
    BY <1>2, <1>6, <2>1, <2>2, Zenon DEF Safe!Select
<1> QED
  BY <1>7, Zenon DEF Safe!Next

\* The verification of an application.
LEMMA VerifyMaps ==
    ASSUME IInv, IInv', MarkVerified
    PROVE  Safe!Next
<1>0. PICK r, a : r = eng.run /\ a = eng.app
  BY Zenon
<1>1. r \in Runs /\ activeRun = r /\ r # NoRun /\ a \in Apps /\ a \in Frozen(r)
  BY <1>0, ConstantsAssumption, Zenon DEF MarkVerified, At, IInv, TypeOK, EngineType, EngineInv, ReloadKeepsRun,
     RunPcs, AppPcs, Frozen
<1>2. rows[r][a].status # "VERIFIED" /\ run_is_active(state)
  BY <1>0, <1>1, Zenon DEF MarkVerified, At, IInv, EngineInv, ReloadKeepsRun, RunPcs, AppPcs
<1>3. ~all_apps_verified(r)
  BY <1>1, <1>2, Zenon DEF all_apps_verified
<1>4. Phase = "backing"
  BY <1>1, <1>2, <1>3, PhaseOf, Zenon DEF IInv, VerifiedBeforeShutdown
<1>5. UNCHANGED <<state, activeRun, instance>> /\ Phase' = Phase
  BY Zenon DEF MarkVerified, envVars, Phase
<1>6. /\ \A b \in Apps : b # a => rows'[r][b] = rows[r][b]
      /\ rows'[r][a].rank = rows[r][a].rank /\ rows'[r][a].status = "VERIFIED"
  <2>1. rows \in [Runs -> [Apps -> RowType]] /\ rows' = [rows EXCEPT ![r][a] = [@ EXCEPT !.status = "VERIFIED"]]
    BY <1>0, Zenon DEF MarkVerified, mark_app_verified, IInv, TypeOK
  <2>2. \A b \in Apps : b # a => rows'[r][b] = rows[r][b]
    BY <1>1, <2>1, Zenon
  <2>3. rows'[r][a].rank = rows[r][a].rank /\ rows'[r][a].status = "VERIFIED"
    BY <1>1, <2>1 DEF RowType
  <2> QED
    BY <2>2, <2>3, Zenon
<1>7. Frozen(r)' = Frozen(r)
  BY <1>1, <1>6, Zenon DEF Frozen
<1>8. Selected' = Selected /\ a \in Selected /\ Selected \subseteq Apps
  BY <1>1, <1>5, <1>7, Zenon DEF Selected, Frozen
<1>9. Verified' = Verified \cup {a}
  BY <1>1, <1>5, <1>6, <1>8, Zenon DEF Verified
<1>10. Safe!Verify
  BY <1>4, <1>5, <1>8, <1>9, Zenon DEF Safe!Verify
<1> QED
  BY <1>10, Zenon DEF Safe!Next

\* Announcing the shutdown of a run that is all verified.
LEMMA CloseMaps ==
    ASSUME IInv, IInv', eng.pc = "provider", mark_shutdown_started(eng.run),
           UNCHANGED <<rows, instance>>
    PROVE  Safe!Next
<1>1. eng.run \in Runs /\ activeRun = eng.run /\ activeRun # NoRun /\ run_is_active(state)
  BY ConstantsAssumption, Zenon DEF IInv, TypeOK, EngineType, EngineInv, ReloadKeepsRun, RunPcs
<1>2. Phase \in {"backing", "closing"}
  BY <1>1, PhaseOf, Zenon
<1>3. state' = "SHUTTING_DOWN" /\ activeRun' = activeRun
  BY <1>1, Zenon DEF mark_shutdown_started
<1>4. Phase' = "closing"
  BY <1>3, Zenon DEF Phase
<1>5. Selected' = Selected /\ Verified' = Verified
  BY <1>3, Zenon DEF Selected, Verified, Frozen
<1>6. all_apps_verified(activeRun)
  BY <1>1, Zenon DEF IInv, EngineInv, ProviderPcs
<1>7. Selected # {} /\ Verified = Selected
  BY <1>1, <1>6, Zenon DEF all_apps_verified, Selected, Verified
<1> QED
  BY <1>2, <1>4, <1>5, <1>7, Zenon DEF Safe!Next, Safe!Close

\* The provider's answers.
LEMMA PowerMaps ==
    ASSUME IInv, IInv', eng.pc = "calling", instance' \in {instance, "down"},
           UNCHANGED <<state, activeRun, rows>>
    PROVE  [Safe!Next]_(Safe!vars)
<1>1. Phase = "closing" /\ Phase' = Phase
  BY Zenon DEF IInv, EngineInv, Phase
<1>2. Selected' = Selected /\ Verified' = Verified
  BY Zenon DEF Selected, Verified, Frozen
<1>3. CASE instance' = "down"
  BY <1>1, <1>2, <1>3, Zenon DEF Safe!Next, Safe!PowerOff
<1>4. CASE instance' = instance
  BY <1>1, <1>2, <1>4, Zenon DEF Safe!vars
<1> QED
  BY <1>3, <1>4, Zenon

\* A run completes when the machine is down.
LEMMA FinishMaps ==
    ASSUME IInv, IInv', DownInv, CompleteRun
    PROVE  Safe!Next
<1>1. activeRun = eng.run /\ state = "SHUTTING_DOWN" /\ instance = "down"
  BY Zenon DEF CompleteRun, At, IInv, EngineInv, ReloadKeepsRun, RunPcs, DownInv
<1>2. state' = "COMPLETED" /\ UNCHANGED <<activeRun, rows, instance>>
  BY <1>1, Zenon DEF CompleteRun, complete_run, envVars
<1>3. Phase = "closing" /\ Phase' = "done"
  BY <1>1, <1>2, Zenon DEF Phase
<1>4. Selected' = Selected /\ Verified' = Verified
  BY <1>2, Zenon DEF Selected, Verified, Frozen
<1> QED
  BY <1>1, <1>2, <1>3, <1>4, Zenon DEF Safe!Next, Safe!Finish

\* Every step is a step of the abstract specification or none.
LEMMA StepMaps ==
    ASSUME IInv, IInv', DownInv, [Next]_vars
    PROVE  [Safe!Next]_(Safe!vars)
<1> USE DEF dbVars, envVars
<1>1. CASE UNCHANGED <<state, activeRun, rows, instance>>
  BY <1>1, MapKept, Zenon DEF Phase
<1>2. CASE TickBegin \/ UpdateUsage \/ TickSnapshot \/ TickLatch
  BY <1>1, <1>2, Zenon DEF TickBegin, UpdateUsage, TickSnapshot, TickLatch
<1>3. CASE TickMonitoring \/ TickTimeoutReached \/ TickSelecting
  <2>1. /\ state \in WatchingStates /\ state' \in WatchingStates
        /\ UNCHANGED <<activeRun, rows, instance>>
    BY <1>3, Zenon DEF TickMonitoring, TickTimeoutReached, TickSelecting, transition, At, IInv, EngineInv,
       WatchingStates
  <2>2. Phase' = Phase
    BY <2>1, Zenon DEF Phase, WatchingStates
  <2> QED
    BY <2>1, <2>2, MapKept, Zenon
<1>4. CASE TickDisabled \/ Start
  BY <1>4, ResetMaps, Zenon DEF TickDisabled, Start
<1>5. CASE SelectNothing
  <2>1. run_is_active(state)
    BY <1>5, Zenon DEF SelectNothing, At, IInv, EngineInv, run_is_active
  <2> QED
    BY <1>5, <2>1, FailMaps, Zenon DEF SelectNothing, fail_run
<1>6. CASE FreezeApps
  BY <1>6, SelectMaps, Zenon
<1>7. CASE LoadCapability \/ NextApp \/ AppsDone \/ ProbeBaseline \/ ProbeFails \/ StartBackup
           \/ PollInProgress
  BY <1>1, <1>7, Zenon DEF LoadCapability, NextApp, AppsDone, ProbeBaseline, ProbeFails, StartBackup,
     PollInProgress
<1>8. CASE CapabilityUnusable \/ FailBackup
  <2>1. run_is_active(state)
    BY <1>8, Zenon DEF CapabilityUnusable, FailBackup, At, IInv, EngineInv, ReloadKeepsRun, RunPcs
  <2> QED
    BY <1>8, <2>1, FailMaps, Zenon DEF CapabilityUnusable, FailBackup, fail_run
<1>9. CASE StartBackupFails \/ MarkRunning \/ MonitorFails \/ MarkFailed
  <2>1. KeepsRows
    BY <1>9, RowUpdatesKeep, Zenon DEF StartBackupFails, MarkRunning, MonitorFails, MarkFailed, IInv
  <2>2. UNCHANGED <<state, activeRun, instance>>
    BY <1>9, Zenon DEF StartBackupFails, MarkRunning, MonitorFails, MarkFailed
  <2> QED
    BY <2>1, <2>2, MapKept, Zenon DEF Phase
<1>10. CASE PollCompleted \/ VerifyCommit
  <2>1. /\ state' \in {"BACKING_UP", "VERIFYING"} /\ UNCHANGED <<activeRun, rows, instance>>
        /\ eng.pc \in {"monitor", "verify"}
    BY <1>10, Zenon DEF PollCompleted, VerifyCommit, transition, At
  <2>2. activeRun = eng.run /\ eng.run # NoRun /\ run_is_active(state)
    BY <2>1, Zenon DEF IInv, EngineInv, ReloadKeepsRun, RunPcs
  <2>3. ~all_apps_verified(activeRun)
    BY <2>1, <2>2, Zenon DEF IInv, EngineInv, AppPcs, all_apps_verified
  <2>4. Phase = "backing"
    BY <2>2, <2>3, PhaseOf, Zenon DEF IInv, VerifiedBeforeShutdown
  <2>5. Phase' = "backing"
    BY <2>1, Zenon DEF Phase
  <2> QED
    BY <2>1, <2>4, <2>5, MapKept, Zenon
<1>11. CASE MarkVerified
  BY <1>11, VerifyMaps, Zenon
<1>12. CASE ProviderAttempt
  <2>1. run_is_active(state)
    BY <1>12, Zenon DEF ProviderAttempt, At, IInv, EngineInv, ReloadKeepsRun, RunPcs
  <2>2. CASE mark_shutdown_started(eng.run)
    BY <1>12, <2>2, CloseMaps, Zenon DEF ProviderAttempt, At
  <2>3. CASE fail_run(eng.run, "SHUTDOWN_FAILED_SAFE")
    BY <1>12, <2>1, <2>3, FailMaps, Zenon DEF ProviderAttempt, fail_run
  <2> QED
    BY <1>12, <2>2, <2>3, Zenon DEF ProviderAttempt
<1>13. CASE ProviderOk \/ ProviderErr
  BY <1>13, PowerMaps, Zenon DEF ProviderOk, ProviderErr, At
<1>14. CASE ProviderRetry
  <2>1. state = "SHUTTING_DOWN" /\ UNCHANGED <<rows, instance>>
    BY <1>14, Zenon DEF ProviderRetry, At, IInv, EngineInv
  <2>2. CASE transition("SHUTDOWN_RETRY_WAIT")
    <3>1. Phase' = Phase /\ UNCHANGED activeRun
      BY <2>1, <2>2, Zenon DEF Phase, transition
    <3> QED
      BY <2>1, <3>1, MapKept, Zenon
  <2>3. CASE fail_run(eng.run, "SHUTDOWN_FAILED_SAFE")
    BY <2>1, <2>3, FailMaps, Zenon DEF fail_run, run_is_active
  <2> QED
    BY <1>14, <2>2, <2>3, Zenon DEF ProviderRetry
<1>15. CASE CompleteRun
  BY <1>15, FinishMaps, Zenon
<1>16. ASSUME NEW h \in Handlers, ReloadLoad(h) \/ HandlerStep(h) \/ ReloadDbError(h)
       PROVE  [Safe!Next]_(Safe!vars)
  <2>1. CASE ReloadLoad(h) \/ ReloadSwap(h) \/ ReloadRefused(h) \/ ReloadRearm(h) \/ ReloadDbError(h)
    BY <1>1, <2>1, Zenon DEF ReloadLoad, ReloadSwap, ReloadRefused, ReloadRearm, ReloadDbError
  <2>2. CASE ReloadResetFailure(h) \/ ReloadInitialize(h) \/ ReloadDisable(h)
    BY <2>2, ResetMaps, Zenon DEF ReloadResetFailure, ReloadInitialize, ReloadDisable
  <2> QED
    BY <1>16, <2>1, <2>2, Zenon DEF HandlerStep
<1>17. CASE Crash \/ InstanceHalts \/ TickDbError \/ BackupDbError
  BY <1>1, <1>17, Zenon DEF Crash, InstanceHalts, TickDbError, BackupDbError
<1>18. CASE InstanceBoots
  <2>1. instance = "down" /\ instance' = "up" /\ UNCHANGED <<state, activeRun, rows>>
    BY <1>18, Zenon DEF InstanceBoots
  <2>2. Phase' = Phase /\ Selected' = Selected /\ Verified' = Verified
    BY <2>1, Zenon DEF Phase, Selected, Verified, Frozen
  <2> QED
    BY <2>1, <2>2, Zenon DEF Safe!Next, Safe!Boot
<1>19. CASE WorldStep
  BY <1>1, <1>19, Zenon DEF WorldStep, RecordActivity, ClockTick, ExpireCapability, BackupCommits
<1>20. CASE UNCHANGED vars
  BY <1>1, <1>20, Zenon DEF vars
<1> QED
  BY <1>2, <1>3, <1>4, <1>5, <1>6, <1>7, <1>8, <1>9, <1>10, <1>11, <1>12, <1>13, <1>14, <1>15,
     <1>16, <1>17, <1>18, <1>19, <1>20, Zenon
  DEF Next, EngineStep, FaultStep

\* Whatever crashes, reloads and provider errors interleave, the agent does only what
\* SafeShutdown allows: the database state is its phase, the frozen selection its
\* selection, and the VERIFIED rows are what it verified.
THEOREM RefinesSafeShutdown == Spec => ImplementsSafeShutdown
<1>1. Init => DownInv
  BY DEF Init, DownInv, IdleEngine
<1>2. Spec => []DownInv
  BY <1>1, DownStep, Invariant, PTL DEF Spec
<1>3. Init => Safe!Init
  BY Zenon DEF Init, Safe!Init, Phase, Selected, Verified
<1> QED
  BY <1>2, <1>3, StepMaps, Invariant, PTL DEF Spec, ImplementsSafeShutdown, Safe!Spec

-----------------------------------------------------------------------------
(* A timeout is granted in full *)

\* The clock: unless a reload has enabled the agent and not re-armed it yet, the
\* user's inactivity is counted from the start of the grace period or later.
Rearming == \E h \in Handlers : rpc[h] \in {"resetNew", "init", "rearm"}
GraceInv == alive /\ "reload" \notin DbMayFail => idle <= grace \/ Rearming

\* Only ReloadSwap starts a new grace period with an old clock, and it goes on to
\* re-arm the clock.
LEMMA GraceStep ==
    ASSUME TypeOK, TypeOK', GraceInv, [Next]_vars
    PROVE  GraceInv'
<1>0. idle \in 0..Timeout /\ grace \in 0..Timeout /\ Timeout \in Nat
  BY ConstantsAssumption, Zenon DEF TypeOK
<1>1. CASE UNCHANGED <<alive, idle, grace, rpc>>
  BY <1>1, Zenon DEF GraceInv, Rearming
<1>2. CASE EngineStep
  BY <1>1, <1>2, Zenon DEF memVars, rpcVars, ghostVars,
     EngineStep, TickBegin, TickDisabled, UpdateUsage, TickSnapshot, TickLatch, TickMonitoring,
     TickTimeoutReached, TickSelecting, SelectNothing, FreezeApps, LoadCapability,
     CapabilityUnusable, NextApp, AppsDone, ProbeBaseline, ProbeFails, StartBackup,
     StartBackupFails, MarkRunning, PollInProgress, PollCompleted, MonitorFails, VerifyCommit,
     MarkVerified, MarkFailed, FailBackup, ProviderAttempt, ProviderOk, ProviderErr,
     ProviderRetry, CompleteRun
<1>3. ASSUME NEW h \in Handlers, ReloadLoad(h) \/ HandlerStep(h) PROVE GraceInv'
  <2>0. rpc \in [Handlers -> RpcPcs]
    BY Zenon DEF TypeOK
  <2>1. CASE ReloadLoad(h) \/ ReloadRefused(h) \/ ReloadDisable(h)
    <3>1. /\ UNCHANGED <<alive, idle, grace>>
          /\ \A g \in Handlers : g # h => rpc'[g] = rpc[g]
          /\ rpc[h] \in {"idle", "lock", "disable"}
      BY <2>0, <2>1, Zenon DEF ReloadLoad, ReloadRefused, ReloadDisable, RpcGoto, memVars, ghostVars
    <3> QED
      BY <3>1, Zenon DEF GraceInv, Rearming
  <2>2. CASE ReloadSwap(h)
    <3>1. /\ UNCHANGED <<alive, idle>> /\ rpc[h] = "lock"
          /\ \A g \in Handlers : g # h => rpc'[g] = rpc[g]
          /\ grace' = grace \/ rpc'[h] = "resetNew"
      BY <2>0, <2>2, Zenon DEF ReloadSwap, RpcGoto
    <3> QED
      BY <3>1, Zenon DEF GraceInv, Rearming
  <2>3. CASE ReloadResetFailure(h) \/ ReloadInitialize(h)
    <3>1. /\ UNCHANGED <<alive, idle, grace>>
          /\ \A g \in Handlers : g # h => rpc'[g] = rpc[g]
          /\ rpc[h] \in {"resetNew", "init", "rearm"} => rpc'[h] \in {"init", "rearm"}
      BY <2>0, <2>3, Zenon DEF ReloadResetFailure, ReloadInitialize, RpcGoto, memVars, ghostVars
    <3> QED
      BY <3>1, Zenon DEF GraceInv, Rearming
  <2>4. CASE ReloadRearm(h)
    <3>1. idle' = 0 /\ grace' = grace
      BY <2>4, Zenon DEF ReloadRearm, ghostVars
    <3> QED
      BY <1>0, <3>1 DEF GraceInv
  <2> QED
    BY <1>3, <2>1, <2>2, <2>3, <2>4, Zenon DEF HandlerStep
<1>4. CASE Start
  BY <1>4 DEF Start, GraceInv
<1>5. CASE Crash \/ InstanceHalts
  BY <1>5, Zenon DEF Crash, InstanceHalts, Stopped, GraceInv
<1>6. CASE InstanceBoots \/ TickDbError \/ BackupDbError
  BY <1>1, <1>6, Zenon DEF InstanceBoots, TickDbError, BackupDbError, memVars, rpcVars, ghostVars
<1>7. ASSUME NEW h \in Handlers, ReloadDbError(h) PROVE GraceInv'
  BY <1>7, Zenon DEF ReloadDbError, GraceInv
<1>8. CASE RecordActivity
  BY <1>0, <1>8 DEF RecordActivity, ghostVars, GraceInv
<1>9. CASE ClockTick
  <2>1. idle <= grace => idle' <= grace'
    BY <1>0, <1>9 DEF ClockTick
  <2>2. UNCHANGED <<alive, rpc>>
    BY <1>9, Zenon DEF ClockTick, rpcVars
  <2> QED
    BY <2>1, <2>2, Zenon DEF GraceInv, Rearming
<1>10. CASE ExpireCapability \/ \E a \in Apps, m \in Modes : BackupCommits(a, m)
  BY <1>1, <1>10, Zenon DEF ExpireCapability, BackupCommits, memVars, rpcVars, ghostVars
<1>11. CASE UNCHANGED vars
  BY <1>1, <1>11, Zenon DEF vars, memVars, rpcVars, ghostVars
<1> QED
  BY <1>2, <1>3, <1>4, <1>5, <1>6, <1>7, <1>8, <1>9, <1>10, <1>11, Zenon
  DEF Next, FaultStep, WorldStep

\* The timeout is latched only in TickLatch, after Timeout of inactivity.
LEMMA LatchStep ==
    ASSUME TypeOK, [Next]_vars, alive, ~latched, latched'
    PROVE  idle >= Timeout
<1>1. CASE UNCHANGED latched
  BY <1>1, Zenon
<1>2. CASE TickLatch
  BY <1>2, Zenon DEF TickLatch, latch_timeout_if_elapsed
<1>3. CASE EngineStep /\ ~TickLatch
  BY <1>1, <1>3, Zenon DEF memVars,
     EngineStep, TickBegin, TickDisabled, UpdateUsage, TickSnapshot, TickMonitoring,
     TickTimeoutReached, TickSelecting, SelectNothing, FreezeApps, LoadCapability,
     CapabilityUnusable, NextApp, AppsDone, ProbeBaseline, ProbeFails, StartBackup,
     StartBackupFails, MarkRunning, PollInProgress, PollCompleted, MonitorFails, VerifyCommit,
     MarkVerified, MarkFailed, FailBackup, ProviderAttempt, ProviderOk, ProviderErr,
     ProviderRetry, CompleteRun
<1>4. ASSUME NEW h \in Handlers, ReloadLoad(h) \/ HandlerStep(h) \/ ReloadDbError(h)
      PROVE  UNCHANGED latched \/ latched' = FALSE
  BY <1>4, Zenon DEF ReloadLoad, HandlerStep, ReloadSwap, ReloadRefused, ReloadResetFailure,
     ReloadInitialize, ReloadRearm, ReloadDisable, ReloadDbError, memVars
<1>5. CASE Start
  BY <1>5, Zenon DEF Start
<1>6. CASE Crash \/ InstanceHalts \/ InstanceBoots \/ TickDbError \/ BackupDbError
  BY <1>1, <1>6, Zenon DEF Crash, InstanceHalts, Stopped, InstanceBoots, TickDbError,
     BackupDbError, memVars
<1>7. CASE WorldStep
  BY <1>1, <1>7, Zenon DEF WorldStep, RecordActivity, ClockTick, ExpireCapability, BackupCommits,
     memVars
<1>8. CASE UNCHANGED vars
  BY <1>1, <1>8, Zenon DEF vars, memVars
<1> QED
  BY <1>1, <1>2, <1>3, <1>4, <1>5, <1>6, <1>7, <1>8, Zenon DEF Next, FaultStep

\* A full inactivity timeout passes after the start of the process, and after a
\* reload that enables the agent, before the next timeout is latched.
THEOREM TimeoutIsFull == Spec => FullTimeoutGranted
<1>1. Init => GraceInv
  BY Zenon DEF Init, GraceInv
<1>2. Spec => []GraceInv
  BY <1>1, GraceStep, TypeCorrect, PTL DEF Spec
<1>3. ASSUME TypeOK, GraceInv, [Next]_vars
      PROVE  [alive /\ ~latched /\ latched' =>
                \/ grace >= Timeout
                \/ \E h \in Handlers : rpc[h] \in {"resetNew", "init", "rearm"}
                \/ "reload" \in DbMayFail]_vars
  <2>1. idle \in 0..Timeout /\ grace \in 0..Timeout /\ Timeout \in Nat
    BY <1>3, ConstantsAssumption, Zenon DEF TypeOK
  <2> QED
    BY <1>3, <2>1, LatchStep DEF GraceInv, Rearming
<1> QED
  BY <1>2, <1>3, TypeCorrect, PTL DEF Spec, FullTimeoutGranted

-----------------------------------------------------------------------------
(* A verified application has a baseline *)

\* The baselines: where a personal-only backup is chosen, runs or is verified, a
\* complete backup of the application is in shared storage.
HasBaseline(a) == "complete" \in stored[a]
BaselineInv ==
    /\ VerifiedHasBaseline
    /\ \A r \in Runs, a \in Apps : rows[r][a].op = "personal" => HasBaseline(a)
    /\ eng.mode # NoOp => eng.pc \in AppPcs \cup {"failRun"}
    /\ eng.pc \in AppPcs /\ eng.mode = "personal" => HasBaseline(eng.app)
    /\ eng.pc \in {"verify", "verified"} => HasBaseline(eng.app)

\* Who writes the operation of a row.
LEMMA RowOps ==
    ASSUME TypeOK, NEW r \in Runs, NEW a \in Apps, NEW op \in Modes \cup {NoOp},
           \/ mark_app_running(r, a, op) \/ record_start_failure(r, a)
           \/ mark_app_pending_retry(r, a) \/ mark_app_failed(r, a) \/ mark_app_verified(r, a)
    PROVE  \A q \in Runs, b \in Apps :
             rows'[q][b].op \in {rows[q][b].op, NoOp} \/ (b = a /\ rows'[q][b].op = op)
<1>1. rows \in [Runs -> [Apps -> RowType]]
  BY Zenon DEF TypeOK
<1> DEFINE Elsewhere == \A q \in Runs, b \in Apps : q # r \/ b # a => rows'[q][b] = rows[q][b]
           Here == rows'[r][a].op \in {rows[r][a].op, NoOp, op}
<1>2. CASE mark_app_running(r, a, op)
  <2>1. Elsewhere
    BY <1>1, <1>2, Zenon DEF mark_app_running
  <2>2. Here
    BY <1>1, <1>2 DEF mark_app_running, RowType
  <2> QED
    BY <2>1, <2>2, Zenon
<1>3. CASE record_start_failure(r, a)
  <2>1. Elsewhere
    BY <1>1, <1>3, Zenon DEF record_start_failure
  <2>2. Here
    BY <1>1, <1>3 DEF record_start_failure, RowType
  <2> QED
    BY <2>1, <2>2, Zenon
<1>4. CASE mark_app_pending_retry(r, a)
  <2>1. Elsewhere
    BY <1>1, <1>4, Zenon DEF mark_app_pending_retry
  <2>2. Here
    BY <1>1, <1>4 DEF mark_app_pending_retry, RowType
  <2> QED
    BY <2>1, <2>2, Zenon
<1>5. CASE mark_app_failed(r, a)
  <2>1. Elsewhere
    BY <1>1, <1>5, Zenon DEF mark_app_failed
  <2>2. Here
    BY <1>1, <1>5 DEF mark_app_failed, RowType
  <2> QED
    BY <2>1, <2>2, Zenon
<1>6. CASE mark_app_verified(r, a)
  <2>1. Elsewhere
    BY <1>1, <1>6, Zenon DEF mark_app_verified
  <2>2. Here
    BY <1>1, <1>6 DEF mark_app_verified, RowType
  <2> QED
    BY <2>1, <2>2, Zenon
<1> QED
  BY <1>2, <1>3, <1>4, <1>5, <1>6, Zenon

\* A step that verifies nothing, starts no personal-only operation and takes
\* nothing out of storage keeps the part of the invariant about the rows.
LEMMA BaselineFrame ==
    ASSUME IInv, BaselineInv, \A a \in Apps : HasBaseline(a) => HasBaseline(a)',
           \A r \in Runs, a \in Apps :
             /\ rows'[r][a].status = "VERIFIED" => rows[r][a].status = "VERIFIED"
             /\ rows'[r][a].op \in {rows[r][a].op, NoOp},
           \/ UNCHANGED <<eng>>
           \/ eng'.mode = NoOp /\ eng'.pc \notin {"verify", "verified"}
           \/ /\ eng'.mode \in {eng.mode, NoOp} /\ eng'.app = eng.app /\ eng.pc \in AppPcs
              /\ eng'.pc \in AppPcs \cup {"failRun"}
              /\ eng'.pc \in {"verify", "verified"} => eng.pc \in {"verify", "verified"}
    PROVE  BaselineInv'
<1>0. eng.pc \in AppPcs => eng.app \in Apps
  BY Zenon DEF IInv, EngineInv, Frozen
<1>1. VerifiedHasBaseline'
  BY Zenon DEF BaselineInv, VerifiedHasBaseline, HasBaseline
<1>2. \A r \in Runs, a \in Apps : rows'[r][a].op = "personal" => HasBaseline(a)'
  BY Zenon DEF BaselineInv, NoOp
<1>3. /\ eng'.mode # NoOp => eng'.pc \in AppPcs \cup {"failRun"}
      /\ eng'.pc \in AppPcs /\ eng'.mode = "personal" => HasBaseline(eng.app)' /\ eng'.app = eng.app
      /\ eng'.pc \in {"verify", "verified"} => HasBaseline(eng.app)' /\ eng'.app = eng.app
  BY <1>0, Zenon DEF BaselineInv, AppPcs, NoOp, HasBaseline
<1> QED
  BY <1>1, <1>2, <1>3, Zenon DEF BaselineInv, HasBaseline

\* backup_app probes the catalog before it chooses the personal-only mode, and
\* nothing is removed from storage.
LEMMA BaselineStep ==
    ASSUME IInv, IInv', BaselineInv, [Next]_vars
    PROVE  BaselineInv'
<1>0. /\ eng \in EngineType /\ rows \in [Runs -> [Apps -> RowType]]
      /\ IdleEngine.pc = "idle" /\ IdleEngine.mode = NoOp
      /\ stored \in [Apps -> SUBSET Modes]
  BY Zenon DEF IInv, TypeOK, IdleEngine
<1>1. eng.pc \in AppPcs => eng.run \in Runs /\ eng.app \in Apps
  BY Zenon DEF IInv, TypeOK, EngineInv, EngineType, Frozen, RunPcs, AppPcs
<1>2. eng.pc \notin AppPcs \cup {"failRun"} => eng.mode = NoOp
  BY Zenon DEF BaselineInv
<1> DEFINE SameRows == \A r \in Runs, a \in Apps :
             /\ rows'[r][a].status = "VERIFIED" => rows[r][a].status = "VERIFIED"
             /\ rows'[r][a].op \in {rows[r][a].op, NoOp}
           Quiet == eng'.mode = NoOp /\ eng'.pc \notin {"verify", "verified"}
<1> USE DEF At, Goto, envVars, dbVars
<1>3. CASE \/ TickBegin \/ TickDisabled \/ UpdateUsage \/ TickMonitoring
           \/ TickTimeoutReached \/ TickSelecting \/ SelectNothing
  <2>1. Quiet /\ UNCHANGED <<rows, stored>>
    BY <1>0, <1>2, <1>3, Zenon DEF TickBegin, TickDisabled, UpdateUsage, TickMonitoring,
       TickTimeoutReached, TickSelecting, SelectNothing, AppPcs, EngineType
  <2> QED
    BY <2>1, BaselineFrame, Zenon DEF HasBaseline
<1>4. CASE TickSnapshot \/ TickLatch
  <2>1. Quiet
    BY <1>0, <1>2, <1>4 DEF TickSnapshot, TickLatch, AppPcs, EngineType, IdleEngine
  <2>2. UNCHANGED <<rows, stored>>
    BY <1>4, Zenon DEF TickSnapshot, TickLatch
  <2> QED
    BY <2>1, <2>2, BaselineFrame, Zenon DEF HasBaseline
<1>5. CASE FreezeApps
  <2>1. Quiet /\ UNCHANGED stored
    BY <1>0, <1>2, <1>5, Zenon DEF FreezeApps, AppPcs, EngineType
  <2>2. SameRows
    <3>1. PICK r \in Runs, rk \in [Apps -> 0..Limit] : create_run_with_frozen_apps(r, rk)
      BY <1>5, Zenon DEF FreezeApps
    <3>2. \A q \in Runs : q # r => rows'[q] = rows[q]
      BY <1>0, <3>1, Zenon DEF create_run_with_frozen_apps
    <3>3. \A a \in Apps : rows'[r][a].status = "PENDING" /\ rows'[r][a].op = NoOp
      BY <1>0, <3>1, Zenon DEF create_run_with_frozen_apps, NoRow
    <3> QED
      BY <3>2, <3>3, Zenon
  <2> QED
    BY <2>1, <2>2, BaselineFrame, Zenon DEF HasBaseline
<1>6. CASE LoadCapability \/ CapabilityUnusable \/ NextApp \/ AppsDone \/ FailBackup
  <2>1. Quiet /\ UNCHANGED <<rows, stored>>
    BY <1>0, <1>2, <1>6, Zenon DEF LoadCapability, CapabilityUnusable, NextApp, AppsDone, FailBackup,
       AppPcs, EngineType
  <2> QED
    BY <2>1, BaselineFrame, Zenon DEF HasBaseline
<1>7. CASE ProbeBaseline
  <2>1. /\ UNCHANGED <<rows, stored>> /\ eng.app \in Apps /\ eng'.app = eng.app
        /\ eng'.pc \in {"start", "failRun"}
        /\ eng'.mode = "personal" => HasBaseline(eng.app)
    BY <1>0, <1>1, <1>7, Zenon DEF ProbeBaseline, EngineType, AppPcs, HasBaseline
  <2> QED
    BY <2>1, Zenon DEF BaselineInv, VerifiedHasBaseline, HasBaseline, AppPcs
<1>8. CASE ProbeFails \/ StartBackup \/ PollInProgress \/ VerifyCommit
  <2>1. /\ UNCHANGED <<rows, stored>> /\ eng'.app = eng.app /\ eng'.mode = eng.mode
        /\ eng.pc \in AppPcs /\ eng'.pc \in AppPcs \cup {"failRun"}
        /\ eng'.pc \in {"verify", "verified"} => eng.pc \in {"verify", "verified"}
    BY <1>0, <1>8, Zenon DEF ProbeFails, StartBackup, PollInProgress, VerifyCommit, EngineType, AppPcs
  <2> QED
    BY <2>1, BaselineFrame, Zenon DEF HasBaseline
<1>9. CASE PollCompleted
  <2>1. /\ UNCHANGED <<rows, stored>> /\ eng'.app = eng.app /\ eng'.mode = eng.mode
        /\ eng.pc \in AppPcs /\ eng'.pc = "verify"
        /\ Row.op \in stored[eng.app] \/ Row.op = "personal"
    BY <1>0, <1>9, Zenon DEF PollCompleted, EngineType, AppPcs
  <2>2. Row.op \in Modes
    BY <1>0, <1>1, <2>1, Zenon DEF Modes
  <2>3. HasBaseline(eng.app)
    BY <1>1, <2>1, <2>2, Zenon DEF BaselineInv, HasBaseline, Row, Modes
  <2> QED
    BY <2>1, <2>3, Zenon DEF BaselineInv, VerifiedHasBaseline, HasBaseline, AppPcs
<1>10. CASE StartBackupFails \/ MonitorFails \/ MarkFailed
  <2>1. /\ UNCHANGED stored /\ eng'.app = eng.app /\ eng'.mode = eng.mode
        /\ eng.pc \in AppPcs /\ eng'.pc \in AppPcs \cup {"failRun"}
        /\ eng'.pc \notin {"verify", "verified"}
    BY <1>0, <1>10, Zenon DEF StartBackupFails, MonitorFails, MarkFailed, EngineType, AppPcs
  <2>2. \/ record_start_failure(eng.run, eng.app) \/ mark_app_pending_retry(eng.run, eng.app)
        \/ mark_app_failed(eng.run, eng.app)
    BY <1>10, Zenon DEF StartBackupFails, MonitorFails, MarkFailed
  <2>3. KeepsRows
    BY <2>2, RowUpdatesKeep, Zenon DEF IInv
  <2>4. NoOp \in Modes \cup {NoOp} /\ TypeOK
    BY Zenon DEF IInv
  <2>5. \A q \in Runs, b \in Apps : rows'[q][b].op \in {rows[q][b].op, NoOp}
    BY <1>1, <2>1, <2>2, <2>4, RowOps
  <2>6. SameRows
    BY <2>3, <2>5, Zenon DEF KeepsRows
  <2> QED
    BY <2>1, <2>6, BaselineFrame, Zenon DEF HasBaseline
<1>11. CASE MarkRunning
  <2>1. /\ UNCHANGED stored /\ eng'.app = eng.app /\ eng'.mode = eng.mode
        /\ eng.pc = "mark" /\ eng'.pc = "monitor" /\ eng.mode \in Modes \cup {NoOp}
        /\ mark_app_running(eng.run, eng.app, eng.mode)
    BY <1>0, <1>11, Zenon DEF MarkRunning, EngineType
  <2>2. eng.run \in Runs /\ eng.app \in Apps /\ TypeOK
    BY <1>1, <2>1, Zenon DEF AppPcs, IInv
  <2>3. KeepsRows
    BY <2>1, <2>2, RowUpdatesKeep, Zenon
  <2>4. \A q \in Runs, b \in Apps :
          rows'[q][b].op \in {rows[q][b].op, NoOp} \/ (b = eng.app /\ rows'[q][b].op = eng.mode)
    BY <2>1, <2>2, RowOps
  <2>5. eng.mode = "personal" => HasBaseline(eng.app)
    BY <2>1, Zenon DEF BaselineInv, AppPcs
  <2>6. \A q \in Runs, b \in Apps : rows'[q][b].op = "personal" => HasBaseline(b)
    BY <2>4, <2>5, Zenon DEF BaselineInv, NoOp
  <2>7. VerifiedHasBaseline'
    BY <2>1, <2>3, Zenon DEF BaselineInv, VerifiedHasBaseline, KeepsRows
  <2> QED
    BY <2>1, <2>5, <2>6, <2>7, Zenon DEF BaselineInv, HasBaseline, AppPcs
<1>12. CASE MarkVerified
  <2>1. /\ UNCHANGED stored /\ eng'.mode = NoOp /\ eng'.pc = "app"
        /\ eng.pc = "verified" /\ mark_app_verified(eng.run, eng.app)
    BY <1>0, <1>12, Zenon DEF MarkVerified, EngineType
  <2>2. eng.run \in Runs /\ eng.app \in Apps /\ TypeOK /\ HasBaseline(eng.app)
    BY <1>1, <2>1, Zenon DEF AppPcs, IInv, BaselineInv
  <2>3. \A q \in Runs, b \in Apps :
          rows'[q][b].status = "VERIFIED" => rows[q][b].status = "VERIFIED" \/ b = eng.app
    BY <1>0, <2>1, <2>2, Zenon DEF mark_app_verified
  <2>4. \A q \in Runs, b \in Apps : rows'[q][b].op = rows[q][b].op
    BY <1>0, <2>1, <2>2 DEF mark_app_verified, RowType
  <2>5. VerifiedHasBaseline'
    BY <2>1, <2>2, <2>3, Zenon DEF BaselineInv, VerifiedHasBaseline, HasBaseline
  <2> QED
    BY <2>1, <2>4, <2>5, Zenon DEF BaselineInv, HasBaseline, AppPcs
<1>13. CASE ProviderAttempt \/ ProviderOk \/ ProviderErr \/ ProviderRetry \/ CompleteRun
  <2>1. Quiet /\ UNCHANGED <<rows, stored>>
    BY <1>0, <1>2, <1>13, Zenon DEF ProviderAttempt, ProviderOk, ProviderErr, ProviderRetry, CompleteRun,
       EngineType, AppPcs
  <2> QED
    BY <2>1, BaselineFrame, Zenon DEF HasBaseline
<1>14. ASSUME NEW h \in Handlers, ReloadLoad(h) \/ HandlerStep(h) \/ ReloadDbError(h)
       PROVE  UNCHANGED <<eng, rows, stored>>
  BY <1>14, Zenon DEF ReloadLoad, HandlerStep, ReloadSwap, ReloadRefused, ReloadResetFailure,
     ReloadInitialize, ReloadRearm, ReloadDisable, ReloadDbError
<1>15. CASE Crash \/ InstanceHalts \/ TickDbError
  <2>1. Quiet /\ UNCHANGED <<rows, stored>>
    BY <1>0, <1>15, Zenon DEF Crash, InstanceHalts, Stopped, TickDbError
  <2> QED
    BY <2>1, BaselineFrame, Zenon DEF HasBaseline
<1>16. CASE BackupDbError
  <2>1. /\ UNCHANGED <<rows, stored>> /\ eng'.app = eng.app /\ eng'.mode = eng.mode
        /\ eng.pc \in AppPcs /\ eng'.pc = "failRun"
    BY <1>0, <1>16, Zenon DEF BackupDbError, EngineType, AppPcs
  <2> QED
    BY <2>1, BaselineFrame, Zenon DEF HasBaseline
<1>17. CASE UNCHANGED <<eng, rows, stored>>
  BY <1>17, BaselineFrame, Zenon DEF HasBaseline
<1>18. CASE Start \/ InstanceBoots \/ RecordActivity \/ ClockTick
  BY <1>17, <1>18, Zenon DEF Start, InstanceBoots, RecordActivity, ClockTick
<1>19. CASE ExpireCapability
  <2>1. /\ UNCHANGED <<rows, stored>>
        /\ eng'.pc = eng.pc /\ eng'.app = eng.app /\ eng'.mode = eng.mode
    BY <1>0, <1>19, Zenon DEF ExpireCapability, EngineType
  <2> QED
    BY <2>1, Zenon DEF BaselineInv, VerifiedHasBaseline, HasBaseline
<1>20. ASSUME NEW a \in Apps, NEW m \in Modes, BackupCommits(a, m) PROVE BaselineInv'
  <2>1. UNCHANGED <<eng, rows>> /\ stored' = [stored EXCEPT ![a] = @ \cup {m}]
    BY <1>20, Zenon DEF BackupCommits
  <2>2. \A b \in Apps : HasBaseline(b) => HasBaseline(b)'
    BY <1>0, <2>1, Zenon DEF HasBaseline
  <2> QED
    BY <2>1, <2>2, BaselineFrame, Zenon
<1>21. CASE UNCHANGED vars
  BY <1>17, <1>21, Zenon DEF vars
<1> HIDE DEF SameRows, Quiet
<1> QED
  BY <1>3, <1>4, <1>5, <1>6, <1>7, <1>8, <1>9, <1>10, <1>11, <1>12, <1>13, <1>14, <1>15, <1>16,
     <1>17, <1>18, <1>19, <1>20, <1>21, Zenon
  DEF Next, EngineStep, FaultStep, WorldStep

\* Whatever crashes and faults happen, an application is VERIFIED only with a
\* complete backup in storage, also when its own backup was personal-only.
THEOREM VerifiedApplicationsHaveBaselines == Spec => []VerifiedHasBaseline
<1>1. Init => BaselineInv
  BY DEF Init, BaselineInv, VerifiedHasBaseline, IdleEngine, NoRow, NoOp, AppPcs
<1>2. Spec => []BaselineInv
  BY <1>1, BaselineStep, Invariant, PTL DEF Spec
<1>3. BaselineInv => VerifiedHasBaseline
  BY Zenon DEF BaselineInv
<1> QED
  BY <1>2, <1>3, PTL

-----------------------------------------------------------------------------
(* Operations are started once per attempt *)

\* The operations started: bounded as LaunchesBounded says, and none for a run
\* that was not created.
LaunchInv ==
    /\ LaunchesBounded
    /\ \A r \in Runs : runStatus[r] = "NONE" => \A a \in Apps : Launched(r, a) = 0

\* One more operation of the application in hand.
LEMMA LaunchCounts ==
    ASSUME TypeOK, Launch, eng.run \in Runs, eng.app \in Apps
    PROVE  \A r \in Runs, a \in Apps :
             \/ Launched(r, a)' = Launched(r, a)
             \/ (r = eng.run /\ a = eng.app /\ Launched(r, a)' = Launched(r, a) + 1)
<1>1. launches \in [Runs -> [Apps -> [Modes -> Nat]]] /\ eng.mode \in Modes \cup {NoOp}
  BY Zenon DEF TypeOK, EngineType
<1>2. PICK r, a, m : r = eng.run /\ a = eng.app /\ m = eng.mode
  BY Zenon
<1>3. launches' = [launches EXCEPT ![r][a][m] = @ + 1]
  BY <1>2, Zenon DEF Launch
<1>4. \A q \in Runs, b \in Apps : q # r \/ b # a => launches'[q][b] = launches[q][b]
  BY <1>1, <1>2, <1>3, Zenon
<1>5. launches'[r][a] = [launches[r][a] EXCEPT ![m] = @ + 1]
  BY <1>1, <1>2, <1>3, Zenon
<1>5a. launches[r][a] \in [Modes -> Nat]
  BY <1>1, <1>2, Zenon
<1>6. launches[r][a]["complete"] \in Nat /\ launches[r][a]["personal"] \in Nat
  BY <1>5a, Zenon DEF Modes
<1>7. \/ /\ launches'[r][a]["complete"] = launches[r][a]["complete"]
         /\ launches'[r][a]["personal"] = launches[r][a]["personal"]
      \/ /\ launches'[r][a]["complete"] = launches[r][a]["complete"] + 1
         /\ launches'[r][a]["personal"] = launches[r][a]["personal"]
      \/ /\ launches'[r][a]["complete"] = launches[r][a]["complete"]
         /\ launches'[r][a]["personal"] = launches[r][a]["personal"] + 1
  BY <1>1, <1>2, <1>5, <1>5a DEF Modes, NoOp
<1>8. Launched(r, a)' \in {Launched(r, a), Launched(r, a) + 1}
  BY <1>6, <1>7 DEF Launched
<1> QED
  BY <1>2, <1>4, <1>8, Zenon DEF Launched

\* The persisted attempts of an existing run never decrease, a new run has none,
\* and no row is taken away.
LEMMA AttemptsKept ==
    ASSUME IInv, [Next]_vars
    PROVE  /\ \A r \in Runs, a \in Apps :
                rows[r][a].attempts \in Nat /\
                (rows'[r][a].attempts >= rows[r][a].attempts \/ runStatus[r] = "NONE")
           /\ \A r \in Runs, a \in Apps : IInv' => rows'[r][a].attempts \in Nat
<1>1. rows \in [Runs -> [Apps -> RowType]]
  BY Zenon DEF IInv, TypeOK
<1>2. \A r \in Runs, a \in Apps : rows[r][a].attempts \in Nat
  BY <1>1, ConstantsAssumption DEF RowType
<1>3. ASSUME IInv' PROVE \A r \in Runs, a \in Apps : rows'[r][a].attempts \in Nat
  BY <1>3, ConstantsAssumption DEF RowType, IInv, TypeOK
<1>4. CASE rows' = rows
  BY <1>2, <1>3, <1>4
<1>5. CASE eng.run \in Runs /\ eng.app \in Apps /\ RowUpdate(eng.run, eng.app)
  BY <1>2, <1>3, <1>5, RowAdvances, Zenon DEF IInv
<1>6. CASE \E r \in Runs : /\ runStatus[r] = "NONE"
                           /\ \E rk \in [Apps -> 0..Limit] : create_run_with_frozen_apps(r, rk)
  BY <1>1, <1>2, <1>3, <1>6 DEF create_run_with_frozen_apps
<1> QED
  BY <1>4, <1>5, <1>6, TableStep, Zenon

\* A step that starts nothing and leaves no operation unmarked behind.
LEMMA LaunchFrame ==
    ASSUME IInv, IInv', LaunchInv, [Next]_vars, UNCHANGED launches,
           faults' \in Nat, faults' >= faults,
           ProviderAction = "destroy" /\ instance' = "up" => instance = "up",
           \A r \in Runs : runStatus'[r] = "NONE" => runStatus[r] = "NONE",
           \/ eng.pc # "mark"
           \/ eng'.pc = eng.pc /\ eng'.run = eng.run /\ eng'.app = eng.app
           \/ faults' = faults + 1
           \/ instance' = "down"
    PROVE  LaunchInv'
<1>1. ASSUME NEW r \in Runs, NEW a \in Apps PROVE Launched(r, a) \in Nat
  BY <1>1 DEF IInv, TypeOK, Modes, Launched
<1>2. ASSUME NEW r \in Runs, NEW a \in Apps PROVE Launched(r, a)' = Launched(r, a)
  BY Zenon DEF Launched
<1>3. ASSUME NEW r \in Runs, NEW a \in Apps, ProviderAction = "destroy", instance' = "up"
      PROVE  Launched(r, a)' <= rows'[r][a].attempts + faults' + Unmarked(r, a)'
  <2>1. Launched(r, a) <= rows[r][a].attempts + faults + Unmarked(r, a)
    BY <1>3, Zenon DEF LaunchInv, LaunchesBounded
  <2>2. faults \in Nat /\ rows[r][a].attempts \in Nat /\ rows'[r][a].attempts \in Nat
    <3>1. faults \in Nat
      BY ConstantsAssumption DEF IInv, TypeOK
    <3> QED
      BY <1>3, <3>1, AttemptsKept, Zenon
  <2>3. faults + Unmarked(r, a) <= faults' + Unmarked(r, a)'
    BY <1>3, <2>2 DEF Unmarked
  <2>4. Unmarked(r, a) \in {0, 1} /\ Unmarked(r, a)' \in {0, 1}
    BY Zenon DEF Unmarked
  <2>5. CASE rows'[r][a].attempts >= rows[r][a].attempts
    BY <1>1, <1>2, <2>1, <2>2, <2>3, <2>4, <2>5
  <2>6. CASE runStatus[r] = "NONE"
    BY <1>2, <2>2, <2>4, <2>6 DEF LaunchInv
  <2> QED
    BY <2>5, <2>6, AttemptsKept, Zenon
<1>4. LaunchesBounded'
  BY <1>3, Zenon DEF LaunchesBounded
<1> QED
  BY <1>2, <1>4, Zenon DEF LaunchInv

\* mark_app_running and record_start_failure count an attempt of their row.
LEMMA OneMore ==
    ASSUME TypeOK, NEW r \in Runs, NEW a \in Apps, NEW op,
           mark_app_running(r, a, op) \/ record_start_failure(r, a)
    PROVE  /\ rows'[r][a].attempts = rows[r][a].attempts + 1
           /\ \A q \in Runs, b \in Apps : q # r \/ b # a => rows'[q][b] = rows[q][b]
<1>1. rows \in [Runs -> [Apps -> RowType]]
  BY Zenon DEF TypeOK
<1>2. CASE mark_app_running(r, a, op)
  <2>1. rows'[r][a].attempts = rows[r][a].attempts + 1
    BY <1>1, <1>2 DEF mark_app_running, RowType
  <2>2. \A q \in Runs, b \in Apps : q # r \/ b # a => rows'[q][b] = rows[q][b]
    BY <1>1, <1>2, Zenon DEF mark_app_running
  <2> QED
    BY <2>1, <2>2, Zenon
<1>3. CASE record_start_failure(r, a)
  <2>1. rows'[r][a].attempts = rows[r][a].attempts + 1
    BY <1>1, <1>3 DEF record_start_failure, RowType
  <2>2. \A q \in Runs, b \in Apps : q # r \/ b # a => rows'[q][b] = rows[q][b]
    BY <1>1, <1>3, Zenon DEF record_start_failure
  <2> QED
    BY <2>1, <2>2, Zenon
<1> QED
  BY <1>2, <1>3, Zenon

\* A step of the application in hand that accounts for what it starts.
LEMMA LaunchBalance ==
    ASSUME IInv, IInv', LaunchInv, UNCHANGED <<instance, runStatus>>, Launch \/ UNCHANGED launches,
           NEW r \in Runs, NEW a \in Apps, r = eng.run, a = eng.app, runStatus[r] # "NONE",
           eng.pc \in AppPcs, eng'.pc # "mark" \/ (eng'.run = r /\ eng'.app = a),
           \A q \in Runs, b \in Apps :
              q # r \/ b # a => rows'[q][b].attempts = rows[q][b].attempts,
           faults' >= faults,
           Launched(r, a)' + rows[r][a].attempts + faults + Unmarked(r, a)
             <= Launched(r, a) + rows'[r][a].attempts + faults' + Unmarked(r, a)'
    PROVE  LaunchInv'
<1>1. ASSUME NEW q \in Runs, NEW b \in Apps
      PROVE  /\ Launched(q, b) \in Nat /\ Launched(q, b)' \in Nat
             /\ rows[q][b].attempts \in Nat /\ rows'[q][b].attempts \in Nat
             /\ Unmarked(q, b) \in {0, 1} /\ Unmarked(q, b)' \in {0, 1}
             /\ q # r \/ b # a => Unmarked(q, b) = 0 /\ Unmarked(q, b)' = 0
  <2>1. /\ Launched(q, b) \in Nat /\ Launched(q, b)' \in Nat
    BY <1>1 DEF IInv, TypeOK, Modes, Launched
  <2>2. rows[q][b].attempts \in Nat /\ rows'[q][b].attempts \in Nat
    BY <1>1, ConstantsAssumption DEF IInv, TypeOK, RowType
  <2> QED
    BY <2>1, <2>2, Zenon DEF Unmarked
<1>2. faults \in Nat /\ faults' \in Nat
  BY DEF IInv, TypeOK
<1>3. \A q \in Runs, b \in Apps : q # r \/ b # a => Launched(q, b)' = Launched(q, b)
  <2>1. CASE Launch
    BY <2>1, LaunchCounts, Zenon DEF IInv
  <2>2. CASE UNCHANGED launches
    BY <2>2, Zenon DEF Launched
  <2> QED
    BY <2>1, <2>2, Zenon
<1>4. ASSUME NEW q \in Runs, NEW b \in Apps, ProviderAction = "destroy", instance = "up"
      PROVE  Launched(q, b)' <= rows'[q][b].attempts + faults' + Unmarked(q, b)'
  <2>1. Launched(q, b) <= rows[q][b].attempts + faults + Unmarked(q, b)
    BY <1>4, Zenon DEF LaunchInv, LaunchesBounded
  <2>2. CASE q = r /\ b = a
    BY <1>1, <1>2, <2>1, <2>2
  <2>3. CASE q # r \/ b # a
    <3>1. /\ Launched(q, b)' = Launched(q, b) /\ rows'[q][b].attempts = rows[q][b].attempts
          /\ Unmarked(q, b) = 0 /\ Unmarked(q, b)' = 0
      BY <1>1, <1>3, <2>3, Zenon
    <3> QED
      BY <1>1, <1>2, <2>1, <3>1
  <2> QED
    BY <2>2, <2>3, Zenon
<1>5. LaunchesBounded'
  BY <1>4, Zenon DEF LaunchesBounded
<1>6. \A q \in Runs : runStatus'[q] = "NONE" => \A b \in Apps : Launched(q, b)' = 0
  BY <1>3, Zenon DEF LaunchInv
<1> QED
  BY <1>5, <1>6, Zenon DEF LaunchInv

\* No run is taken back.
LEMMA RunsStay ==
    ASSUME IInv, [Next]_vars, NEW r \in Runs, runStatus[r] # "NONE"
    PROVE  runStatus'[r] # "NONE"
<1>0. runStatus \in [Runs -> LifecycleState \cup {"NONE"}]
  BY Zenon DEF IInv, TypeOK
<1>1. CASE runStatus' = runStatus
  BY <1>1, Zenon
<1>2. CASE r # eng.run
  BY <1>2, StatusStep, Zenon
<1> USE DEF dbVars
<1>3. CASE \/ TickBegin \/ TickDisabled \/ UpdateUsage \/ TickSnapshot \/ TickLatch
           \/ TickMonitoring \/ TickTimeoutReached \/ TickSelecting
           \/ LoadCapability \/ NextApp \/ AppsDone \/ ProbeBaseline \/ ProbeFails
           \/ StartBackup \/ StartBackupFails \/ MarkRunning \/ PollInProgress
           \/ PollCompleted \/ MonitorFails \/ VerifyCommit \/ MarkVerified \/ MarkFailed
  BY <1>1, <1>3, Zenon DEF TickBegin, TickDisabled, UpdateUsage, TickSnapshot, TickLatch,
     TickMonitoring, TickTimeoutReached, TickSelecting, LoadCapability, NextApp, AppsDone,
     ProbeBaseline, ProbeFails, StartBackup, StartBackupFails, MarkRunning, PollInProgress,
     PollCompleted, MonitorFails, VerifyCommit, MarkVerified, MarkFailed
<1>4. CASE SelectNothing \/ FreezeApps \/ CapabilityUnusable \/ FailBackup
  BY <1>0, <1>4, Zenon DEF SelectNothing, FreezeApps, CapabilityUnusable, FailBackup, fail_run,
     create_run_with_frozen_apps
<1>5. CASE ProviderAttempt \/ ProviderOk \/ ProviderErr \/ ProviderRetry \/ CompleteRun
  BY <1>0, <1>5, Zenon DEF ProviderAttempt, ProviderOk, ProviderErr, ProviderRetry, CompleteRun,
     mark_shutdown_started, fail_run, complete_run
<1>6. ASSUME NEW h \in Handlers, ReloadLoad(h) \/ HandlerStep(h) PROVE runStatus' = runStatus
  BY <1>6, Zenon DEF ReloadLoad, HandlerStep, ReloadSwap, ReloadRefused, ReloadResetFailure,
     ReloadInitialize, ReloadRearm, ReloadDisable
<1>7. CASE Start \/ FaultStep
  BY <1>1, <1>7, Zenon DEF Start, FaultStep, Crash, InstanceHalts, InstanceBoots, TickDbError,
     BackupDbError, ReloadDbError
<1>8. CASE WorldStep
  BY <1>1, <1>8, Zenon DEF WorldStep, RecordActivity, ClockTick, ExpireCapability, BackupCommits
<1>9. CASE UNCHANGED vars
  BY <1>1, <1>9, Zenon DEF vars
<1> QED
  BY <1>1, <1>3, <1>4, <1>5, <1>6, <1>7, <1>8, <1>9, Zenon DEF Next, EngineStep

\* Every start is followed by the update of its row, unless a fault comes between.
LEMMA LaunchStep ==
    ASSUME IInv, IInv', LaunchInv, [Next]_vars
    PROVE  LaunchInv'
<1>0. /\ eng \in EngineType /\ faults \in Nat /\ faults' \in Nat
      /\ runStatus \in [Runs -> LifecycleState \cup {"NONE"}]
      /\ rows \in [Runs -> [Apps -> RowType]]
      /\ instance \in {"up", "down"}
  BY DEF IInv, TypeOK
<1>1. eng.pc \in AppPcs => eng.run \in Runs /\ eng.app \in Apps /\ runStatus[eng.run] # "NONE"
  BY ConstantsAssumption, Zenon DEF IInv, TypeOK, EngineInv, EngineType, RunInv, ReloadKeepsRun, Frozen,
     RunPcs, AppPcs
<1>2. \A r \in Runs : runStatus'[r] = "NONE" => runStatus[r] = "NONE"
  BY RunsStay, Zenon
<1> USE DEF At, Goto, envVars, ghostVars
<1>3. CASE \/ TickBegin \/ TickDisabled \/ UpdateUsage \/ TickSnapshot \/ TickLatch
           \/ TickMonitoring \/ TickTimeoutReached \/ TickSelecting \/ SelectNothing
           \/ FreezeApps \/ LoadCapability \/ CapabilityUnusable \/ NextApp \/ AppsDone
  <2>1. UNCHANGED <<launches, instance, faults>> /\ eng.pc # "mark"
    BY <1>3, Zenon DEF TickBegin, TickDisabled, UpdateUsage, TickSnapshot, TickLatch, TickMonitoring,
       TickTimeoutReached, TickSelecting, SelectNothing, FreezeApps, LoadCapability,
       CapabilityUnusable, NextApp, AppsDone
  <2> QED
    BY <1>0, <1>2, <2>1, LaunchFrame
<1>4. CASE \/ ProbeBaseline \/ ProbeFails \/ PollInProgress \/ PollCompleted \/ MonitorFails
           \/ VerifyCommit \/ MarkVerified \/ MarkFailed \/ FailBackup
  <2>1. UNCHANGED <<launches, instance, faults>> /\ eng.pc # "mark"
    BY <1>4, Zenon DEF ProbeBaseline, ProbeFails, PollInProgress, PollCompleted, MonitorFails,
       VerifyCommit, MarkVerified, MarkFailed, FailBackup
  <2> QED
    BY <1>0, <1>2, <2>1, LaunchFrame
<1>5. CASE ProviderAttempt \/ ProviderOk \/ ProviderErr \/ ProviderRetry \/ CompleteRun
  <2>1. /\ UNCHANGED <<launches, faults>> /\ eng.pc # "mark"
        /\ instance' \in {instance, "down"}
    BY <1>5, Zenon DEF ProviderAttempt, ProviderOk, ProviderErr, ProviderRetry, CompleteRun
  <2> QED
    BY <1>0, <1>2, <2>1, LaunchFrame
<1>6. PICK r, a : r = eng.run /\ a = eng.app
  BY Zenon
<1>7. ASSUME eng.pc \in AppPcs
      PROVE  r \in Runs /\ a \in Apps /\ runStatus[r] # "NONE" /\ rows[r][a].attempts \in Nat
             /\ Launched(r, a) \in Nat
  BY <1>0, <1>1, <1>6, <1>7, ConstantsAssumption DEF RowType, Launched, IInv, TypeOK, Modes
<1>8. ASSUME eng.pc \in AppPcs, Launch
      PROVE  Launched(r, a)' \in {Launched(r, a), Launched(r, a) + 1}
  BY <1>6, <1>7, <1>8, LaunchCounts, Zenon DEF IInv
<1>9. CASE StartBackup
  <2>1. /\ UNCHANGED <<rows, instance, faults, runStatus>> /\ Launch
        /\ eng.pc \in AppPcs /\ eng.pc # "mark"
        /\ eng'.pc = "mark" /\ eng'.run = r /\ eng'.app = a
    BY <1>0, <1>6, <1>9, Zenon DEF StartBackup, EngineType, dbVars, AppPcs
  <2>2. Unmarked(r, a) = 0 /\ Unmarked(r, a)' = 1
    BY <2>1, Zenon DEF Unmarked
  <2> QED
    BY <1>0, <1>6, <1>7, <1>8, <2>1, <2>2, LaunchBalance
<1>10. CASE StartBackupFails
  <2>1. /\ UNCHANGED <<instance, faults, runStatus>> /\ (Launch \/ UNCHANGED launches)
        /\ record_start_failure(r, a) /\ eng.pc \in AppPcs /\ eng.pc # "mark"
        /\ eng'.pc # "mark"
    BY <1>0, <1>6, <1>10, Zenon DEF StartBackupFails, EngineType, AppPcs
  <2>2. /\ rows'[r][a].attempts = rows[r][a].attempts + 1
        /\ \A q \in Runs, b \in Apps : q # r \/ b # a => rows'[q][b] = rows[q][b]
    BY <1>7, <2>1, OneMore, Zenon DEF IInv
  <2>3. Unmarked(r, a) = 0 /\ Unmarked(r, a)' = 0
    BY <2>1, Zenon DEF Unmarked
  <2>4. Launched(r, a)' \in {Launched(r, a), Launched(r, a) + 1}
    BY <1>8, <2>1, Zenon DEF Launched
  <2> QED
    BY <1>0, <1>6, <1>7, <2>1, <2>2, <2>3, <2>4, LaunchBalance
<1>11. CASE MarkRunning
  <2>1. /\ UNCHANGED <<instance, faults, runStatus, launches>>
        /\ mark_app_running(r, a, eng.mode) /\ eng.pc \in AppPcs /\ eng'.pc # "mark"
    BY <1>0, <1>6, <1>11, Zenon DEF MarkRunning, EngineType, AppPcs
  <2>2. /\ rows'[r][a].attempts = rows[r][a].attempts + 1
        /\ \A q \in Runs, b \in Apps : q # r \/ b # a => rows'[q][b] = rows[q][b]
    BY <1>7, <2>1, OneMore, Zenon DEF IInv
  <2>3. Unmarked(r, a) \in {0, 1} /\ Unmarked(r, a)' = 0 /\ Launched(r, a)' = Launched(r, a)
    BY <2>1, Zenon DEF Unmarked, Launched
  <2> QED
    BY <1>0, <1>6, <1>7, <2>1, <2>2, <2>3, LaunchBalance
<1>12. CASE BackupDbError
  <2>1. /\ UNCHANGED <<instance, runStatus, rows>> /\ faults' = faults + 1
        /\ ((eng.pc # "mark" /\ Launch) \/ UNCHANGED launches)
        /\ eng.pc \in AppPcs /\ eng'.pc # "mark"
    BY <1>0, <1>12, Zenon DEF BackupDbError, EngineType, AppPcs, dbVars
  <2>2. Unmarked(r, a)' = 0 /\ Unmarked(r, a) \in {0, 1} /\ (eng.pc # "mark" => Unmarked(r, a) = 0)
    BY <2>1, Zenon DEF Unmarked
  <2>3. CASE UNCHANGED launches
    <3>1. Launched(r, a)' = Launched(r, a)
      BY <2>3, Zenon DEF Launched
    <3> QED
      BY <1>0, <1>6, <1>7, <2>1, <2>2, <2>3, <3>1, LaunchBalance
  <2>4. CASE eng.pc # "mark" /\ Launch
    BY <1>0, <1>6, <1>7, <1>8, <2>1, <2>2, <2>4, LaunchBalance
  <2> QED
    BY <2>1, <2>3, <2>4, Zenon
<1>13. ASSUME UNCHANGED <<eng, launches, faults>>,
              ProviderAction = "destroy" /\ instance' = "up" => instance = "up"
       PROVE  LaunchInv'
  BY <1>0, <1>2, <1>13, LaunchFrame
<1>14. ASSUME NEW h \in Handlers, ReloadLoad(h) \/ HandlerStep(h)
       PROVE  UNCHANGED <<eng, launches, faults, instance>>
  BY <1>14, Zenon DEF ReloadLoad, HandlerStep, ReloadSwap, ReloadRefused, ReloadResetFailure,
     ReloadInitialize, ReloadRearm, ReloadDisable
<1>15. CASE \E h \in Handlers : ReloadDbError(h)
  <2>1. UNCHANGED <<eng, launches, instance>> /\ faults' = faults + 1
    BY <1>15, Zenon DEF ReloadDbError
  <2> QED
    BY <1>0, <1>2, <2>1, LaunchFrame
<1>16. CASE Crash \/ TickDbError
  <2>1. UNCHANGED <<launches, instance>> /\ faults' = faults + 1
    BY <1>16, Zenon DEF Crash, TickDbError
  <2> QED
    BY <1>0, <1>2, <2>1, LaunchFrame
<1>17. CASE InstanceHalts
  <2>1. UNCHANGED <<launches, instance, faults>> /\ instance = "down"
    BY <1>17, Zenon DEF InstanceHalts
  <2> QED
    BY <1>0, <1>2, <2>1, LaunchFrame
<1>18. CASE InstanceBoots
  <2>1. UNCHANGED <<eng, launches, faults>> /\ ProviderAction # "destroy"
    BY <1>18, Zenon DEF InstanceBoots
  <2> QED
    BY <1>13, <2>1, Zenon
<1>19. CASE Start \/ RecordActivity \/ ClockTick \/ \E b \in Apps, m \in Modes : BackupCommits(b, m)
  <2>1. UNCHANGED <<eng, launches, faults, instance>>
    BY <1>19, Zenon DEF Start, RecordActivity, ClockTick, BackupCommits
  <2> QED
    BY <1>13, <2>1, Zenon
<1>20. CASE ExpireCapability
  <2>1. /\ UNCHANGED <<launches, faults, instance>>
        /\ eng'.pc = eng.pc /\ eng'.run = eng.run /\ eng'.app = eng.app
    BY <1>0, <1>20, Zenon DEF ExpireCapability, EngineType
  <2> QED
    BY <1>0, <1>2, <2>1, LaunchFrame
<1>21. CASE UNCHANGED vars
  BY <1>13, <1>21, Zenon DEF vars
<1> QED
  BY <1>3, <1>4, <1>5, <1>9, <1>10, <1>11, <1>12, <1>13, <1>14, <1>15, <1>16, <1>17, <1>18, <1>19,
     <1>20, <1>21
  DEF Next, EngineStep, FaultStep, WorldStep

\* However often operations fail, the state agent is asked to back an application up
\* at most as often as the row counts attempts, but for one per fault and the one
\* whose row is about to be written.
THEOREM StartsAreCounted == Spec => []LaunchesBounded
<1>1. Init => LaunchInv
  <2>1. ASSUME Init PROVE \A r \in Runs, a \in Apps : Launched(r, a) = 0
    BY <2>1 DEF Init, Launched, Modes
  <2>2. ASSUME Init, NEW r \in Runs, NEW a \in Apps
        PROVE  rows[r][a].attempts = 0 /\ faults = 0 /\ Unmarked(r, a) = 0
    BY <2>2, Zenon DEF Init, NoRow, Unmarked, IdleEngine
  <2> QED
    BY <2>1, <2>2 DEF LaunchInv, LaunchesBounded
<1>2. Spec => []LaunchInv
  BY <1>1, LaunchStep, Invariant, PTL DEF Spec
<1>3. LaunchInv => LaunchesBounded
  BY Zenon DEF LaunchInv
<1> QED
  BY <1>2, <1>3, PTL

=============================================================================
