-------------------------- MODULE LifecycleProofs --------------------------
(* Theorems about LifecycleAgent, for every number of applications, runs,    *)
(* handlers, retries and faults: its types, its inductive invariant with     *)
(* what follows from it, and what it never undoes.                           *)
EXTENDS LifecycleAgent, TLAPS

-----------------------------------------------------------------------------
(* Type correctness *)

\* Moving the program counter keeps the tick's record well typed.
LEMMA GotoType ==
    ASSUME NEW e \in EngineType, NEW p \in EnginePcs
    PROVE  [e EXCEPT !.pc = p] \in EngineType
BY Zenon DEF EngineType

\* The record of a finished tick is well typed.
LEMMA IdleType == IdleEngine \in EngineType
BY ConstantsAssumption DEF IdleEngine, EngineType, EnginePcs, Modes, NoOp

\* So are the other updates of it, one per form that the actions use.
LEMMA RunType ==
    ASSUME NEW e \in EngineType,
           NEW p \in EnginePcs, NEW r \in Runs \cup {NoRun}
    PROVE  [e EXCEPT !.pc = p, !.run = r] \in EngineType
BY Zenon DEF EngineType

\* The same with the answer about the capability.
LEMMA CapType ==
    ASSUME NEW e \in EngineType, NEW p \in EnginePcs, NEW b \in BOOLEAN
    PROVE  [e EXCEPT !.pc = p, !.cap = b] \in EngineType
BY Zenon DEF EngineType

\* The same with the backup mode of an application.
LEMMA ModeType ==
    ASSUME NEW e \in EngineType,
           NEW m \in Modes \cup {NoOp}, NEW p \in EnginePcs
    PROVE  [e EXCEPT !.mode = m, !.pc = p] \in EngineType
BY Zenon DEF EngineType

\* One more poll of an operation.
LEMMA PollsType ==
    ASSUME NEW e \in EngineType, NEW n \in 0..MaxPolls
    PROVE  [e EXCEPT !.polls = n] \in EngineType
BY Zenon DEF EngineType

\* Entering the monitoring of an operation.
LEMMA MonitorType ==
    ASSUME NEW e \in EngineType,
           NEW p \in EnginePcs, NEW b \in BOOLEAN, NEW n \in 0..MaxPolls
    PROVE  [e EXCEPT !.pc = p, !.resumed = b, !.polls = n] \in EngineType
BY Zenon DEF EngineType

\* Taking up an application.
LEMMA AppType ==
    ASSUME NEW e \in EngineType,
           NEW a \in Apps \cup {NoApp}, NEW n \in 0..MaxPolls, NEW b \in BOOLEAN, NEW p \in EnginePcs
    PROVE  [e EXCEPT !.app = a, !.polls = n, !.resumed = b, !.pc = p] \in EngineType
BY Zenon DEF EngineType

\* Going on to the next application, or to the end of the run.
LEMMA NextAppType ==
    ASSUME NEW e \in EngineType,
           NEW p \in EnginePcs, NEW a \in Apps \cup {NoApp}, NEW m \in Modes \cup {NoOp},
           NEW b \in BOOLEAN, NEW n \in 0..MaxPolls
    PROVE  [e EXCEPT !.pc = p, !.app = a, !.mode = m, !.resumed = b, !.polls = n] \in EngineType
BY Zenon DEF EngineType

\* One more attempt at the provider.
LEMMA TriesType ==
    ASSUME NEW e \in EngineType, NEW p \in EnginePcs, NEW t \in 0..BACKOFFS
    PROVE  [e EXCEPT !.pc = p, !.tries = t] \in EngineType
BY Zenon DEF EngineType

\* The updates of a row keep it well typed.
LEMMA StatusType ==
    ASSUME NEW x \in RowType, NEW s \in {"PENDING", "RUNNING", "VERIFIED", "FAILED"}
    PROVE  [x EXCEPT !.status = s] \in RowType
BY Zenon DEF RowType

\* A row that waits again.
LEMMA PendingType ==
    ASSUME NEW x \in RowType
    PROVE  [x EXCEPT !.status = "PENDING", !.op = NoOp] \in RowType
BY Zenon DEF RowType

\* A row with another attempt.
LEMMA AttemptType ==
    ASSUME NEW x \in RowType, NEW s \in {"PENDING", "RUNNING", "VERIFIED", "FAILED"},
           NEW n \in 0..BACKUP_MAX_ATTEMPTS, NEW op \in Modes \cup {NoOp}
    PROVE  [x EXCEPT !.status = s, !.op = op, !.attempts = n] \in RowType
BY Zenon DEF RowType

\* The row of an application at its rank, before its first attempt.
LEMMA RankType ==
    ASSUME NEW k \in 0..Limit
    PROVE  [NoRow EXCEPT !.rank = k] \in RowType
<1>1. [NoRow EXCEPT !.rank = k] = [rank |-> k, status |-> "PENDING", attempts |-> 0, op |-> NoOp]
  BY DEF NoRow
<1>2. 0 \in 0..BACKUP_MAX_ATTEMPTS
  BY ConstantsAssumption
<1> QED
  BY <1>1, <1>2, Zenon DEF RowType

\* Updating one row, of a run that may not exist, keeps the table well typed.
LEMMA RowsType ==
    ASSUME NEW R \in [Runs -> [Apps -> RowType]], NEW r, NEW a, NEW x,
           r \in Runs /\ a \in Apps => x \in RowType
    PROVE  [R EXCEPT ![r][a] = x] \in [Runs -> [Apps -> RowType]]
BY Zenon

\* The transactions on backup_apps keep the table well typed.
LEMMA StartFailureType ==
    ASSUME TypeOK, NEW r, NEW a, record_start_failure(r, a)
    PROVE  rows' \in [Runs -> [Apps -> RowType]]
<1> DEFINE n == rows[r][a].attempts + 1
           x == [rows[r][a] EXCEPT !.status = "PENDING", !.op = NoOp, !.attempts = n]
<1>1. rows \in [Runs -> [Apps -> RowType]]
  BY Zenon DEF TypeOK
<1>2. rows' = [rows EXCEPT ![r][a] = x]
  BY Zenon DEF record_start_failure
<1>3. r \in Runs /\ a \in Apps => n \in 0..BACKUP_MAX_ATTEMPTS
  BY <1>1, ConstantsAssumption DEF record_start_failure, RowType
<1>4. r \in Runs /\ a \in Apps => x \in RowType
  <2> HIDE DEF n
  <2>1. r \in Runs /\ a \in Apps => rows[r][a] \in RowType
    BY <1>1, Zenon
  <2> QED
    BY <1>3, <2>1, AttemptType, Zenon
<1> HIDE DEF x
<1>5. [rows EXCEPT ![r][a] = x] \in [Runs -> [Apps -> RowType]]
  BY <1>1, <1>4, RowsType, Zenon
<1> QED
  BY <1>1, <1>2, <1>5, Zenon

\* mark_app_running keeps the table well typed.
LEMMA MarkRunningType ==
    ASSUME TypeOK, NEW r, NEW a, NEW op \in Modes \cup {NoOp}, mark_app_running(r, a, op)
    PROVE  rows' \in [Runs -> [Apps -> RowType]]
<1> DEFINE n == rows[r][a].attempts + 1
           x == [rows[r][a] EXCEPT !.status = "RUNNING", !.op = op, !.attempts = n]
<1>1. rows \in [Runs -> [Apps -> RowType]]
  BY Zenon DEF TypeOK
<1>2. rows' = [rows EXCEPT ![r][a] = x]
  BY Zenon DEF mark_app_running
<1>3. r \in Runs /\ a \in Apps => n \in 0..BACKUP_MAX_ATTEMPTS
  BY <1>1, ConstantsAssumption DEF mark_app_running, RowType
<1>4. r \in Runs /\ a \in Apps => x \in RowType
  <2> HIDE DEF n
  <2>1. r \in Runs /\ a \in Apps => rows[r][a] \in RowType
    BY <1>1, Zenon
  <2> QED
    BY <1>3, <2>1, AttemptType, Zenon
<1> HIDE DEF x
<1>5. [rows EXCEPT ![r][a] = x] \in [Runs -> [Apps -> RowType]]
  BY <1>1, <1>4, RowsType, Zenon
<1> QED
  BY <1>1, <1>2, <1>5, Zenon

\* mark_app_pending_retry keeps the table well typed.
LEMMA PendingRetryType ==
    ASSUME TypeOK, NEW r, NEW a, mark_app_pending_retry(r, a)
    PROVE  rows' \in [Runs -> [Apps -> RowType]]
<1> DEFINE x == [rows[r][a] EXCEPT !.status = "PENDING", !.op = NoOp]
<1>1. rows \in [Runs -> [Apps -> RowType]]
  BY Zenon DEF TypeOK
<1>2. rows' = rows \/ rows' = [rows EXCEPT ![r][a] = x]
  BY Zenon DEF mark_app_pending_retry
<1>3. r \in Runs /\ a \in Apps => rows[r][a] \in RowType
  BY <1>1, Zenon
<1>4. r \in Runs /\ a \in Apps => x \in RowType
  BY <1>3, PendingType, Zenon
<1> HIDE DEF x
<1>5. [rows EXCEPT ![r][a] = x] \in [Runs -> [Apps -> RowType]]
  BY <1>1, <1>4, RowsType, Zenon
<1> QED
  BY <1>1, <1>2, <1>5, Zenon

\* mark_app_failed keeps the table well typed.
LEMMA MarkFailedType ==
    ASSUME TypeOK, NEW r, NEW a, mark_app_failed(r, a)
    PROVE  rows' \in [Runs -> [Apps -> RowType]]
<1> DEFINE x == [rows[r][a] EXCEPT !.status = "FAILED"]
<1>1. rows \in [Runs -> [Apps -> RowType]]
  BY Zenon DEF TypeOK
<1>2. rows' = rows \/ rows' = [rows EXCEPT ![r][a] = x]
  BY Zenon DEF mark_app_failed
<1>3. r \in Runs /\ a \in Apps => rows[r][a] \in RowType
  BY <1>1, Zenon
<1>4. r \in Runs /\ a \in Apps => x \in RowType
  BY <1>3, StatusType, Zenon
<1> HIDE DEF x
<1>5. [rows EXCEPT ![r][a] = x] \in [Runs -> [Apps -> RowType]]
  BY <1>1, <1>4, RowsType, Zenon
<1> QED
  BY <1>1, <1>2, <1>5, Zenon

\* mark_app_verified keeps the table well typed.
LEMMA MarkVerifiedType ==
    ASSUME TypeOK, NEW r, NEW a, mark_app_verified(r, a)
    PROVE  rows' \in [Runs -> [Apps -> RowType]]
<1> DEFINE x == [rows[r][a] EXCEPT !.status = "VERIFIED"]
<1>1. rows \in [Runs -> [Apps -> RowType]]
  BY Zenon DEF TypeOK
<1>2. rows' = rows \/ rows' = [rows EXCEPT ![r][a] = x]
  BY Zenon DEF mark_app_verified
<1>3. r \in Runs /\ a \in Apps => rows[r][a] \in RowType
  BY <1>1, Zenon
<1>4. r \in Runs /\ a \in Apps => x \in RowType
  BY <1>3, StatusType, Zenon
<1> HIDE DEF x
<1>5. [rows EXCEPT ![r][a] = x] \in [Runs -> [Apps -> RowType]]
  BY <1>1, <1>4, RowsType, Zenon
<1> QED
  BY <1>1, <1>2, <1>5, Zenon

\* Counting one launch keeps the counters natural numbers.
LEMMA LaunchType ==
    ASSUME TypeOK, Launch
    PROVE  launches' \in [Runs -> [Apps -> [Modes -> Nat]]]
<1> DEFINE f == launches[eng.run][eng.app]
           g == [f EXCEPT ![eng.mode] = f[eng.mode] + 1]
           G == [launches[eng.run] EXCEPT ![eng.app] = g]
<1>1. ASSUME NEW h \in [Modes -> Nat], NEW m, NEW n, m \in Modes => n \in Nat
      PROVE  [h EXCEPT ![m] = n] \in [Modes -> Nat]
  BY <1>1, Zenon
<1>2. ASSUME eng.run \in Runs, eng.app \in Apps PROVE g \in [Modes -> Nat]
  <2>1. f \in [Modes -> Nat]
    BY <1>2 DEF TypeOK
  <2>2. eng.mode \in Modes => f[eng.mode] + 1 \in Nat
    BY <2>1
  <2> HIDE DEF f
  <2> QED
    BY <1>1, <2>1, <2>2, Zenon
<1>3. ASSUME eng.run \in Runs PROVE G \in [Apps -> [Modes -> Nat]]
  <2>1. launches[eng.run] \in [Apps -> [Modes -> Nat]]
    BY <1>3, Zenon DEF TypeOK
  <2>2. eng.app \in Apps => g \in [Modes -> Nat]
    BY <1>2, <1>3, Zenon
  <2> HIDE DEF g
  <2> QED
    BY <2>1, <2>2, Zenon
<1>4. launches' = [launches EXCEPT ![eng.run] = G]
  BY Zenon DEF Launch
<1>5. launches \in [Runs -> [Apps -> [Modes -> Nat]]]
  BY Zenon DEF TypeOK
<1> HIDE DEF G
<1> QED
  BY <1>3, <1>4, <1>5, Zenon

\* A process that is gone leaves its memory in the types of a fresh start.
LEMMA StoppedType ==
    ASSUME TypeOK, Stopped
    PROVE  /\ alive' \in BOOLEAN /\ enabled' \in BOOLEAN /\ latched' \in BOOLEAN
           /\ idle' \in 0..Timeout /\ eng' \in EngineType
           /\ rpc' \in [Handlers -> RpcPcs] /\ loaded' \in [Handlers -> BOOLEAN]
<1>1. alive' \in BOOLEAN /\ enabled' \in BOOLEAN /\ latched' \in BOOLEAN
  BY Zenon DEF Stopped
<1>2. idle' \in 0..Timeout
  BY ConstantsAssumption DEF Stopped
<1>3. eng' \in EngineType
  BY IdleType, Zenon DEF Stopped
<1>4. rpc' \in [Handlers -> RpcPcs] /\ loaded' \in [Handlers -> BOOLEAN]
  BY Zenon DEF Stopped, RpcPcs
<1> QED
  BY <1>1, <1>2, <1>3, <1>4, Zenon

\* Every step of the agent, of its handlers and of its environment keeps every
\* variable in its type.
LEMMA TypeStep == TypeOK /\ [Next]_vars => TypeOK'
<1> SUFFICES ASSUME TypeOK, [Next]_vars PROVE TypeOK'
  BY Zenon
<1> USE ConstantsAssumption
<1> USE DEF TypeOK, dbVars, memVars, rpcVars, envVars, ghostVars
<1>1. CASE TickBegin
  <2>1. eng' \in EngineType
    BY <1>1, GotoType, IdleType, Zenon DEF TickBegin, Goto, EnginePcs
  <2> QED
    BY <1>1, <2>1, Zenon DEF TickBegin, LifecycleState
<1>2. CASE TickDisabled
  <2>1. eng' \in EngineType
    BY <1>2, GotoType, IdleType, Zenon DEF TickDisabled, EnginePcs
  <2> QED
    BY <1>2, <2>1, Zenon DEF TickDisabled, initialize_monitoring, LifecycleState
<1>3. CASE UpdateUsage
  <2>1. eng' \in EngineType
    BY <1>3, GotoType, IdleType, Zenon DEF UpdateUsage, Goto, EnginePcs
  <2> QED
    BY <1>3, <2>1, Zenon DEF UpdateUsage, LifecycleState
<1>4. CASE TickSnapshot
  <2>1. eng' \in EngineType
    BY <1>4, IdleType, GotoType, RunType, Zenon DEF TickSnapshot, EnginePcs
  <2> QED
    BY <1>4, <2>1, Zenon DEF TickSnapshot, LifecycleState
<1>5. CASE TickLatch
  <2>1. eng' \in EngineType
    BY <1>5, GotoType, IdleType, Zenon DEF TickLatch, EnginePcs, latch_timeout_if_elapsed
  <2> QED
    BY <1>5, <2>1, Zenon DEF TickLatch, latch_timeout_if_elapsed, LifecycleState
<1>6. CASE TickMonitoring
  <2>1. eng' \in EngineType
    BY <1>6, GotoType, IdleType, Zenon DEF TickMonitoring, EnginePcs
  <2> QED
    BY <1>6, <2>1, Zenon DEF TickMonitoring, transition, LifecycleState
<1>7. CASE TickTimeoutReached
  <2>1. eng' \in EngineType
    BY <1>7, GotoType, IdleType, Zenon DEF TickTimeoutReached, Goto, EnginePcs
  <2> QED
    BY <1>7, <2>1, Zenon DEF TickTimeoutReached, transition, LifecycleState
<1>8. CASE TickSelecting
  <2>1. eng' \in EngineType
    BY <1>8, GotoType, IdleType, Zenon DEF TickSelecting, Goto, EnginePcs
  <2> QED
    BY <1>8, <2>1, Zenon DEF TickSelecting, transition, LifecycleState
<1>9. CASE SelectNothing
  <2>1. eng' \in EngineType
    BY <1>9, GotoType, IdleType, Zenon DEF SelectNothing, EnginePcs
  <2> QED
    BY <1>9, <2>1, Zenon DEF SelectNothing, fail_run, LifecycleState
<1>10. CASE FreezeApps
  <2>1. eng' \in EngineType
    <3>1. PICK r \in Runs : eng' = [eng EXCEPT !.pc = "load", !.run = r]
      BY <1>10, Zenon DEF FreezeApps
    <3>2. "load" \in EnginePcs
      BY Zenon DEF EnginePcs
    <3> QED
      BY <3>1, <3>2, RunType, Zenon
  <2>2. rows' \in [Runs -> [Apps -> RowType]]
    <3>0. PICK r \in Runs, rk \in [Apps -> 0..Limit] : create_run_with_frozen_apps(r, rk)
      BY <1>10, Zenon DEF FreezeApps
    <3>1. rows' = [rows EXCEPT ![r] = [a \in Apps |-> [NoRow EXCEPT !.rank = rk[a]]]]
      BY <3>0, Zenon DEF create_run_with_frozen_apps
    <3>2. ASSUME NEW a \in Apps PROVE [NoRow EXCEPT !.rank = rk[a]] \in RowType
      <4>1. rk[a] \in 0..Limit
        BY Zenon
      <4> QED
        BY <4>1, RankType, Zenon
    <3> DEFINE frozen == [a \in Apps |-> [NoRow EXCEPT !.rank = rk[a]]]
    <3>3. frozen \in [Apps -> RowType]
      BY <3>2, Zenon
    <3>4. rows \in [Runs -> [Apps -> RowType]] /\ rows' = [rows EXCEPT ![r] = frozen]
      BY <3>1, Zenon DEF TypeOK
    <3> HIDE DEF frozen
    <3> QED
      BY <3>3, <3>4, Zenon
  <2> QED
    BY <1>10, <2>1, <2>2, Zenon DEF FreezeApps, create_run_with_frozen_apps, LifecycleState
<1>11. CASE LoadCapability
  <2>1. eng' \in EngineType
    BY <1>11, CapType, Zenon DEF LoadCapability, EnginePcs
  <2> QED
    BY <1>11, <2>1, Zenon DEF LoadCapability, LifecycleState
<1>12. CASE CapabilityUnusable
  <2>1. eng' \in EngineType
    BY <1>12, GotoType, IdleType, Zenon DEF CapabilityUnusable, EnginePcs
  <2> QED
    BY <1>12, <2>1, Zenon DEF CapabilityUnusable, fail_run, LifecycleState
<1>13. CASE NextApp
  <2>1. eng' \in EngineType
    <3>1. PICK a \in Frozen(eng.run) :
            eng' = [eng EXCEPT !.app = a, !.polls = 0,
                      !.resumed = rows[eng.run][a].status = "RUNNING",
                      !.pc = IF rows[eng.run][a].status = "RUNNING"
                             THEN "monitor" ELSE "probe"]
      BY <1>13, Zenon DEF NextApp
    <3> DEFINE b == rows[eng.run][a].status = "RUNNING"
               p == IF rows[eng.run][a].status = "RUNNING" THEN "monitor" ELSE "probe"
    <3>2. a \in Apps \cup {NoApp} /\ b \in BOOLEAN /\ p \in EnginePcs
      BY Zenon DEF Frozen, EnginePcs
    <3>3. eng \in EngineType /\ 0 \in 0..MaxPolls
      OBVIOUS
    <3>4. eng' = [eng EXCEPT !.app = a, !.polls = 0, !.resumed = b, !.pc = p]
      BY <3>1, Zenon
    <3> HIDE DEF b, p
    <3> QED
      BY <3>2, <3>3, <3>4, AppType, Zenon
  <2> QED
    BY <1>13, <2>1, Zenon DEF NextApp, LifecycleState
<1>14. CASE AppsDone
  <2>1. eng' \in EngineType
    BY <1>14, GotoType, IdleType, Zenon DEF AppsDone, Goto, EnginePcs
  <2> QED
    BY <1>14, <2>1, Zenon DEF AppsDone, LifecycleState
<1>15. CASE ProbeBaseline
  <2>1. eng' \in EngineType
    BY <1>15, ModeType, Zenon DEF ProbeBaseline, EnginePcs, Modes
  <2> QED
    BY <1>15, <2>1, Zenon DEF ProbeBaseline, LifecycleState
<1>16. CASE ProbeFails
  <2>1. eng' \in EngineType
    BY <1>16, GotoType, IdleType, Zenon DEF ProbeFails, Goto, EnginePcs
  <2> QED
    BY <1>16, <2>1, Zenon DEF ProbeFails, LifecycleState
<1>17. CASE StartBackup
  <2>1. eng' \in EngineType
    BY <1>17, GotoType, IdleType, Zenon DEF StartBackup, Goto, EnginePcs
  <2>2. launches' \in [Runs -> [Apps -> [Modes -> Nat]]]
    BY <1>17, LaunchType, Zenon DEF StartBackup
  <2> QED
    BY <1>17, <2>1, <2>2, Zenon DEF StartBackup, LifecycleState
<1>18. CASE StartBackupFails
  <2>1. eng' \in EngineType
    BY <1>18, GotoType, IdleType, Zenon DEF StartBackupFails, Goto, EnginePcs
  <2>2. rows' \in [Runs -> [Apps -> RowType]]
    BY <1>18, StartFailureType, Zenon DEF StartBackupFails
  <2>3. launches' \in [Runs -> [Apps -> [Modes -> Nat]]]
    BY <1>18, LaunchType, Zenon DEF StartBackupFails
  <2> QED
    BY <1>18, <2>1, <2>2, <2>3 DEF StartBackupFails, LifecycleState
<1>19. CASE MarkRunning
  <2>1. eng' \in EngineType
    <3>1. 0 \in 0..MaxPolls /\ FALSE \in BOOLEAN /\ "monitor" \in EnginePcs
      BY DEF EnginePcs
    <3> QED
      BY <1>19, <3>1, MonitorType, Zenon DEF MarkRunning
  <2>2. rows' \in [Runs -> [Apps -> RowType]]
    <3>1. eng.mode \in Modes \cup {NoOp}
      BY Zenon DEF EngineType
    <3> QED
      BY <1>19, <3>1, MarkRunningType, Zenon DEF MarkRunning
  <2> QED
    BY <1>19, <2>1, <2>2, Zenon DEF MarkRunning, LifecycleState
<1>20. CASE PollInProgress
  <2>1. eng' \in EngineType
    <3>1. eng.polls + 1 \in 0..MaxPolls
      BY <1>20 DEF PollInProgress, EngineType
    <3> QED
      BY <1>20, <3>1, PollsType, Zenon DEF PollInProgress
  <2> QED
    BY <1>20, <2>1, Zenon DEF PollInProgress, LifecycleState
<1>21. CASE PollCompleted
  <2>1. eng' \in EngineType
    BY <1>21, GotoType, IdleType, Zenon DEF PollCompleted, Goto, EnginePcs
  <2> QED
    BY <1>21, <2>1, Zenon DEF PollCompleted, transition, LifecycleState
<1>22. CASE MonitorFails
  <2>1. eng' \in EngineType
    BY <1>22, GotoType, IdleType, Zenon DEF MonitorFails, Goto, EnginePcs
  <2>2. rows' \in [Runs -> [Apps -> RowType]]
    BY <1>22, PendingRetryType, MarkFailedType, Zenon DEF MonitorFails
  <2> QED
    BY <1>22, <2>1, <2>2, Zenon DEF MonitorFails, LifecycleState
<1>23. CASE VerifyCommit
  <2>1. eng' \in EngineType
    BY <1>23, GotoType, IdleType, Zenon DEF VerifyCommit, Goto, EnginePcs
  <2> QED
    BY <1>23, <2>1, Zenon DEF VerifyCommit, transition, LifecycleState
<1>24. CASE MarkVerified
  <2>1. eng' \in EngineType
    <3>1. 0 \in 0..MaxPolls /\ FALSE \in BOOLEAN /\ "app" \in EnginePcs
      BY DEF EnginePcs
    <3> QED
      BY <1>24, <3>1, NextAppType, Zenon DEF MarkVerified
  <2>2. rows' \in [Runs -> [Apps -> RowType]]
    BY <1>24, MarkVerifiedType, Zenon DEF MarkVerified
  <2> QED
    BY <1>24, <2>1, <2>2, Zenon DEF MarkVerified, LifecycleState
<1>25. CASE MarkFailed
  <2>1. eng' \in EngineType
    BY <1>25, GotoType, IdleType, Zenon DEF MarkFailed, Goto, EnginePcs
  <2>2. rows' \in [Runs -> [Apps -> RowType]]
    BY <1>25, MarkFailedType, Zenon DEF MarkFailed
  <2> QED
    BY <1>25, <2>1, <2>2, Zenon DEF MarkFailed, LifecycleState
<1>26. CASE FailBackup
  <2>1. eng' \in EngineType
    BY <1>26, GotoType, IdleType, Zenon DEF FailBackup, EnginePcs
  <2> QED
    BY <1>26, <2>1, Zenon DEF FailBackup, fail_run, LifecycleState
<1>27. CASE ProviderAttempt
  <2>1. eng' \in EngineType
    BY <1>27, GotoType, IdleType, Zenon DEF ProviderAttempt, Goto, EnginePcs
  <2> QED
    BY <1>27, <2>1, Zenon DEF ProviderAttempt, mark_shutdown_started, fail_run, LifecycleState
<1>28. CASE ProviderOk
  <2>1. eng' \in EngineType
    BY <1>28, GotoType, IdleType, Zenon DEF ProviderOk, Goto, EnginePcs
  <2> QED
    BY <1>28, <2>1, Zenon DEF ProviderOk, LifecycleState
<1>29. CASE ProviderErr
  <2>1. eng' \in EngineType
    BY <1>29, GotoType, IdleType, Zenon DEF ProviderErr, Goto, EnginePcs
  <2> QED
    BY <1>29, <2>1 DEF ProviderErr, LifecycleState
<1>30. CASE ProviderRetry
  <2>1. eng' \in EngineType
    <3>1. CASE eng.tries < BACKOFFS
      <4>1. eng.tries + 1 \in 0..BACKOFFS /\ "provider" \in EnginePcs
        BY <3>1 DEF EngineType, EnginePcs
      <4> QED
        <5>1. eng' = [eng EXCEPT !.pc = "provider", !.tries = eng.tries + 1]
          BY <1>30, <3>1, Zenon DEF ProviderRetry
        <5> DEFINE t == eng.tries + 1
        <5>2. t \in 0..BACKOFFS
          BY <4>1, Zenon
        <5>3. eng' = [eng EXCEPT !.pc = "provider", !.tries = t]
          BY <5>1, Zenon
        <5> HIDE DEF t
        <5> QED
          BY <4>1, <5>2, <5>3, TriesType, Zenon
    <3>2. CASE ~(eng.tries < BACKOFFS)
      BY <1>30, <3>2, IdleType, Zenon DEF ProviderRetry
    <3> QED
      BY <3>1, <3>2, Zenon
  <2> QED
    BY <1>30, <2>1, Zenon DEF ProviderRetry, transition, fail_run, LifecycleState
<1>31. CASE CompleteRun
  <2>1. eng' \in EngineType
    BY <1>31, GotoType, IdleType, Zenon DEF CompleteRun, EnginePcs
  <2> QED
    BY <1>31, <2>1, Zenon DEF CompleteRun, complete_run, LifecycleState
<1>32. ASSUME NEW h \in Handlers, ReloadLoad(h) PROVE TypeOK'
  BY <1>32 DEF ReloadLoad, RpcGoto, RpcPcs, LifecycleState
<1>33. ASSUME NEW h \in Handlers, ReloadSwap(h) PROVE TypeOK'
  BY <1>33 DEF ReloadSwap, RpcGoto, RpcPcs, LifecycleState
<1>34. ASSUME NEW h \in Handlers, ReloadRefused(h) PROVE TypeOK'
  BY <1>34, Zenon DEF ReloadRefused, RpcGoto, RpcPcs, LifecycleState
<1>35. ASSUME NEW h \in Handlers, ReloadResetFailure(h) PROVE TypeOK'
  BY <1>35, Zenon DEF ReloadResetFailure, RpcGoto, reset_terminal_failure, RpcPcs, LifecycleState
<1>36. ASSUME NEW h \in Handlers, ReloadInitialize(h) PROVE TypeOK'
  BY <1>36, Zenon DEF ReloadInitialize, RpcGoto, initialize_monitoring, RpcPcs, LifecycleState
<1>37. ASSUME NEW h \in Handlers, ReloadRearm(h) PROVE TypeOK'
  <2>1. latched' \in BOOLEAN
    BY <1>37, Zenon DEF ReloadRearm
  <2>2. idle' \in 0..Timeout
    BY <1>37 DEF ReloadRearm
  <2>3. rpc' \in [Handlers -> RpcPcs]
    BY <1>37, Zenon DEF ReloadRearm, RpcGoto, RpcPcs
  <2> QED
    BY <1>37, <2>1, <2>2, <2>3, Zenon DEF ReloadRearm
<1>38. ASSUME NEW h \in Handlers, ReloadDisable(h) PROVE TypeOK'
  BY <1>38, Zenon DEF ReloadDisable, RpcGoto, initialize_monitoring, RpcPcs, LifecycleState
<1>39. CASE TickDbError
  <2>1. eng' \in EngineType
    BY <1>39, GotoType, IdleType, Zenon DEF TickDbError, EnginePcs
  <2> QED
    BY <1>39, <2>1 DEF TickDbError, LifecycleState
<1>40. CASE BackupDbError
  <2>1. eng' \in EngineType
    BY <1>40, GotoType, IdleType, Zenon DEF BackupDbError, Goto, EnginePcs
  <2>2. launches' \in [Runs -> [Apps -> [Modes -> Nat]]]
    BY <1>40, LaunchType, Zenon DEF BackupDbError
  <2> QED
    BY <1>40, <2>1, <2>2 DEF BackupDbError, LifecycleState
<1>41. CASE ExpireCapability
  <2>1. eng' \in EngineType
    BY <1>41, Zenon DEF ExpireCapability, EngineType, EnginePcs, Modes, NoOp
  <2> QED
    BY <1>41, <2>1, Zenon DEF ExpireCapability, LifecycleState
<1>42. CASE Start
  BY <1>42 DEF Start, initialize_monitoring, run_is_active, RpcPcs, LifecycleState
<1>43. CASE Crash
  <2>1. Stopped
    BY <1>43, Zenon DEF Crash
  <2> QED
    BY <1>43, <2>1, StoppedType DEF Crash
<1>44. CASE InstanceHalts
  <2>1. Stopped
    BY <1>44, Zenon DEF InstanceHalts
  <2> QED
    BY <1>44, <2>1, StoppedType, Zenon DEF InstanceHalts
<1>45. CASE InstanceBoots
  BY <1>45, Zenon DEF InstanceBoots, RpcPcs, LifecycleState
<1>46. CASE RecordActivity
  BY <1>46 DEF RecordActivity, RpcPcs, LifecycleState
<1>47. CASE ClockTick
  BY <1>47 DEF ClockTick, RpcPcs, LifecycleState
<1>48. ASSUME NEW a \in Apps, NEW m \in Modes, BackupCommits(a, m) PROVE TypeOK'
  BY <1>48, Zenon DEF BackupCommits
<1>49. CASE UNCHANGED vars
  BY <1>49, Zenon DEF vars
<1>50. ASSUME NEW h \in Handlers, ReloadDbError(h) PROVE TypeOK'
  BY <1>50 DEF ReloadDbError, RpcGoto, RpcPcs, LifecycleState
<1> QED
  BY <1>1, <1>2, <1>3, <1>4, <1>5, <1>6, <1>7, <1>8, <1>9, <1>10, <1>11, <1>12, <1>13, <1>14, <1>15, <1>16, <1>17, <1>18, <1>19, <1>20, <1>21, <1>22, <1>23, <1>24, <1>25, <1>26, <1>27, <1>28, <1>29, <1>30, <1>31, <1>32, <1>33, <1>34, <1>35, <1>36, <1>37, <1>38, <1>39, <1>40, <1>41, <1>42, <1>43, <1>44, <1>45, <1>46, <1>47, <1>48, <1>49, <1>50, Zenon
  DEF Next, EngineStep, HandlerStep, FaultStep, WorldStep

-----------------------------------------------------------------------------
(* The inductive invariant *)

\* The program counters inside execute_run, inside backup_app, and inside the
\* provider loop.
RunPcs ==
    {"load", "app", "probe", "start", "mark", "monitor", "verify", "verified",
     "failApp", "failRun", "provider", "calling", "retry", "complete"}
AppPcs == {"probe", "start", "mark", "monitor", "verify", "verified", "failApp"}
ProviderPcs == {"provider", "calling", "retry", "complete"}

\* The states before a run exists, and those that only a verified run reaches.
WatchingStates ==
    {"DISABLED", "MONITORING", "TIMEOUT_REACHED", "SELECTING_APPLICATIONS"}
ClosingStates ==
    {"SHUTTING_DOWN", "SHUTDOWN_RETRY_WAIT", "SHUTDOWN_FAILED_SAFE", "COMPLETED"}

\* The tick in progress: which locals are set where, and what it knows of the state.
EngineInv ==
    /\ eng.pc \in RunPcs <=> eng.run # NoRun
    /\ eng.pc \in AppPcs => /\ eng.app \in Frozen(eng.run)
                            /\ rows[eng.run][eng.app].status # "VERIFIED"
    /\ eng.pc \in {"latch", "latchDisabled", "toIdle", "timeout"}
         => state \in {"DISABLED", "MONITORING"}
    /\ eng.pc \in {"toSelect", "select"}
         => state \in {"TIMEOUT_REACHED", "SELECTING_APPLICATIONS"}
    /\ eng.pc \in ProviderPcs => all_apps_verified(eng.run)
    /\ eng.pc \in {"calling", "retry", "complete"} => state = "SHUTTING_DOWN"

\* The runs: a row exists exactly once created, and an active run is not finished.
RunInv ==
    /\ \A r \in Runs : runStatus[r] = "NONE" => Frozen(r) = {}
    /\ activeRun # NoRun => runStatus[activeRun] # "NONE" /\ Frozen(activeRun) # {}
    /\ activeRun # NoRun /\ run_is_active(state) => runStatus[activeRun] \notin TerminalStates

\* The inductive invariant.
IInv ==
    /\ TypeOK
    /\ EngineInv
    /\ RunInv
    /\ ReloadKeepsRun
    /\ StateMatchesRun
    /\ VerifiedBeforeShutdown

-----------------------------------------------------------------------------
(* The inductive invariant is preserved *)

\* Steps that touch nothing the invariant mentions.
LEMMA Frame ==
    ASSUME IInv, TypeOK', UNCHANGED <<state, activeRun, runStatus, rows, eng, instance>>
    PROVE  IInv'
BY DEF IInv, EngineInv, RunInv, ReloadKeepsRun, StateMatchesRun, VerifiedBeforeShutdown,
       Frozen, all_apps_verified, run_is_active

\* A tick may be given up anywhere: the database is the whole truth.
LEMMA TickGivenUp ==
    ASSUME IInv, TypeOK', UNCHANGED <<state, activeRun, runStatus, rows, instance>>,
           eng' = IdleEngine
    PROVE  IInv'
<1>1. eng'.pc = "idle" /\ eng'.run = NoRun
  BY Zenon DEF IdleEngine
<1> QED
  BY <1>1 DEF IInv, EngineInv, RunInv, ReloadKeepsRun, StateMatchesRun, VerifiedBeforeShutdown,
       Frozen, all_apps_verified, run_is_active, RunPcs, AppPcs, ProviderPcs

\* A step that takes back no verification and changes no selection.
KeepsRows ==
    \A r \in Runs, a \in Apps :
        /\ rows'[r][a].rank = rows[r][a].rank
        /\ rows'[r][a].status = "VERIFIED" <=> rows[r][a].status = "VERIFIED"

\* The guards on VERIFIED in the transactions on backup_apps see to it.
LEMMA RowUpdatesKeep ==
    ASSUME TypeOK, NEW r, NEW a, NEW op,
           \/ mark_app_running(r, a, op) \/ record_start_failure(r, a)
           \/ mark_app_pending_retry(r, a) \/ mark_app_failed(r, a)
    PROVE  KeepsRows
<1>1. rows \in [Runs -> [Apps -> RowType]]
  BY Zenon DEF TypeOK
<1>2. CASE mark_app_running(r, a, op)
  BY <1>1, <1>2 DEF mark_app_running, KeepsRows, RowType
<1>3. CASE record_start_failure(r, a)
  BY <1>1, <1>3 DEF record_start_failure, KeepsRows, RowType
<1>4. CASE mark_app_pending_retry(r, a)
  BY <1>1, <1>4 DEF mark_app_pending_retry, KeepsRows, RowType
<1>5. CASE mark_app_failed(r, a)
  BY <1>1, <1>5 DEF mark_app_failed, KeepsRows, RowType
<1> QED
  BY <1>2, <1>3, <1>4, <1>5, Zenon

\* While the run is being backed up, such a step keeps the invariant.
LEMMA BackupKept ==
    ASSUME IInv, TypeOK', KeepsRows, UNCHANGED <<activeRun, runStatus, instance>>,
           state' = state \/ state' \in {"BACKING_UP", "VERIFYING"},
           eng.pc \in RunPcs \ ProviderPcs, eng'.run = eng.run,
           \/ eng'.pc \in {"app", "failRun"}
           \/ eng.pc \in AppPcs /\ eng'.pc \in AppPcs /\ eng'.app = eng.app
    PROVE  IInv'
<1>1. \A r \in Runs : {a \in Apps : rows'[r][a].rank > 0} = {a \in Apps : rows[r][a].rank > 0}
  BY Zenon DEF KeepsRows
<1>2. ASSUME NEW r \in Runs, all_apps_verified(r) PROVE all_apps_verified(r)'
  BY <1>1, <1>2, Zenon DEF all_apps_verified, Frozen, KeepsRows
<1>3. /\ activeRun = eng.run /\ eng.run \in Runs
      /\ run_is_active(state)
  BY Zenon DEF IInv, TypeOK, EngineType, EngineInv, ReloadKeepsRun
<1>4. EngineInv'
  BY <1>1, <1>3 DEF IInv, EngineInv, RunPcs, AppPcs, ProviderPcs, Frozen, KeepsRows
<1>5. RunInv'
  BY <1>1, <1>3, Zenon DEF IInv, RunInv, Frozen
<1>6. ReloadKeepsRun'
  BY <1>3, Zenon DEF IInv, ReloadKeepsRun, run_is_active
<1>7. StateMatchesRun'
  BY <1>1, <1>3, ConstantsAssumption, Zenon DEF IInv, StateMatchesRun, RunInv, Frozen
<1>8. VerifiedBeforeShutdown'
  <2>1. eng'.pc \notin ProviderPcs
    BY Zenon DEF AppPcs, ProviderPcs
  <2>2. state' \in ClosingStates => all_apps_verified(activeRun)'
    BY <1>2, <1>3, Zenon DEF IInv, VerifiedBeforeShutdown, ClosingStates
  <2>3. instance' = "down" => \E r \in Runs : all_apps_verified(r)'
    BY <1>2, Zenon DEF IInv, VerifiedBeforeShutdown
  <2> QED
    BY <1>3, <2>1, <2>2, <2>3, ConstantsAssumption, Zenon
    DEF VerifiedBeforeShutdown, ProviderPcs, ClosingStates
<1> QED
  BY <1>4, <1>5, <1>6, <1>7, <1>8, Zenon DEF IInv

\* Failing the run in hand keeps the invariant: the selection and the
\* verifications stay behind with the failed run.
LEMMA RunFailed ==
    ASSUME IInv, TypeOK', UNCHANGED <<rows, instance>>, eng' = IdleEngine, eng.pc \in RunPcs,
           \/ fail_run(eng.run, "BACKUP_FAILED_SAFE")
           \/ fail_run(eng.run, "SHUTDOWN_FAILED_SAFE") /\ eng.pc \in ProviderPcs
           \/ complete_run(eng.run) /\ eng.pc \in ProviderPcs
    PROVE  IInv'
<1>1. eng'.pc = "idle" /\ eng'.run = NoRun
  BY Zenon DEF IdleEngine
<1>2. activeRun = eng.run /\ eng.run \in Runs
  BY Zenon DEF IInv, TypeOK, EngineType, EngineInv, ReloadKeepsRun
<1>3. /\ activeRun' = activeRun
      /\ \A r \in Runs : r # eng.run => runStatus'[r] = runStatus[r]
      /\ runStatus'[eng.run] = state' /\ state' \in TerminalStates
      /\ state' # "BACKUP_FAILED_SAFE" => eng.pc \in ProviderPcs
  BY <1>2, ConstantsAssumption DEF fail_run, complete_run, IInv, TypeOK, TerminalStates
<1>4. EngineInv'
  BY <1>1, Zenon DEF EngineInv, RunPcs, AppPcs, ProviderPcs
<1>5. RunInv'
  BY <1>2, <1>3, Zenon DEF IInv, RunInv, Frozen, TerminalStates, run_is_active
<1>6. ReloadKeepsRun'
  BY <1>1, Zenon DEF ReloadKeepsRun
<1>7. StateMatchesRun'
  BY <1>3, Zenon DEF StateMatchesRun, TerminalStates
<1>8. VerifiedBeforeShutdown'
  <2>1. state' \in ClosingStates => all_apps_verified(eng.run)
    BY <1>3, Zenon DEF IInv, EngineInv, ClosingStates
  <2> QED
    BY <1>1, <1>2, <1>3, <2>1, ConstantsAssumption
    DEF IInv, VerifiedBeforeShutdown, ClosingStates, ProviderPcs, all_apps_verified, Frozen
<1> QED
  BY <1>4, <1>5, <1>6, <1>7, <1>8, Zenon DEF IInv

\* What the reload handlers and the start of the process do to the database.
LEMMA MonitoringReset ==
    ASSUME IInv, TypeOK', UNCHANGED <<runStatus, rows, instance>>,
           UNCHANGED eng \/ eng' = IdleEngine,
           \/ \E on \in BOOLEAN : initialize_monitoring(on)
           \/ reset_terminal_failure
    PROVE  IInv'
<1>1. CASE UNCHANGED <<state, activeRun>>
  BY <1>1, Frame, TickGivenUp, Zenon
<1>2. CASE /\ state' \in {"DISABLED", "MONITORING"} /\ activeRun' = NoRun /\ ~run_is_active(state)
           /\ \/ state \in {"DISABLED", "MONITORING"}
              \/ state \in {"BACKUP_FAILED_SAFE", "SHUTDOWN_FAILED_SAFE"}
  <2>0. \/ eng' = eng
        \/ eng'.pc = "idle" /\ eng'.run = NoRun
    BY DEF IdleEngine
  <2> USE <1>2 DEF IInv, EngineInv, RunInv, ReloadKeepsRun, StateMatchesRun, VerifiedBeforeShutdown,
              RunPcs, AppPcs, ProviderPcs, Frozen, all_apps_verified, run_is_active
  <2>1. EngineInv'
    BY <2>0, Zenon
  <2>2. RunInv'
    BY Zenon
  <2>3. ReloadKeepsRun'
    BY <2>0, Zenon
  <2>4. StateMatchesRun'
    BY Zenon
  <2>5. VerifiedBeforeShutdown'
    BY <2>0
  <2> QED
    BY <2>1, <2>2, <2>3, <2>4, <2>5, Zenon
<1> QED
  BY <1>1, <1>2, Zenon DEF initialize_monitoring, reset_terminal_failure, run_is_active,
     TerminalStates, IInv, TypeOK, LifecycleState

\* Selecting applications and freezing them, and taking up the next one.
LEMMA SelectionStep ==
    ASSUME IInv, TypeOK', FreezeApps \/ NextApp
    PROVE  IInv'
<1> USE ConstantsAssumption
<1>0. /\ eng \in EngineType /\ activeRun \in Runs \cup {NoRun}
      /\ runStatus \in [Runs -> LifecycleState \cup {"NONE"}]
      /\ rows \in [Runs -> [Apps -> RowType]]
  BY Zenon DEF IInv, TypeOK
<1>1. CASE FreezeApps
  <2>1. PICK r \in Runs, rk \in [Apps -> 0..Limit] :
          /\ runStatus[r] = "NONE"
          /\ \E a \in Apps : rk[a] > 0
          /\ create_run_with_frozen_apps(r, rk)
          /\ eng' = [eng EXCEPT !.pc = "load", !.run = r]
    BY <1>1, Zenon DEF FreezeApps
  <2>2. eng'.pc = "load" /\ eng'.run = r
    BY <1>0, <2>1, Zenon DEF EngineType
  <2>3. \A a \in Apps : rows'[r][a].rank = rk[a]
    BY <1>0, <2>1, Zenon DEF create_run_with_frozen_apps, NoRow
  <2>4. \A q \in Runs : q # r => rows'[q] = rows[q]
    BY <1>0, <2>1, Zenon DEF create_run_with_frozen_apps
  <2>5. /\ runStatus'[r] = "BACKING_UP" /\ state' = "BACKING_UP" /\ activeRun' = r
        /\ \A q \in Runs : q # r => runStatus'[q] = runStatus[q]
        /\ instance' = instance
    BY <1>0, <1>1, <2>1, Zenon DEF create_run_with_frozen_apps, FreezeApps, envVars
  <2>6. EngineInv'
    BY <2>2, Zenon DEF EngineInv, RunPcs, AppPcs, ProviderPcs
  <2>7. RunInv'
    BY <2>1, <2>3, <2>4, <2>5 DEF IInv, RunInv, Frozen, TerminalStates
  <2>8. ReloadKeepsRun'
    BY <2>2, <2>5, Zenon DEF ReloadKeepsRun, run_is_active
  <2>9. StateMatchesRun'
    BY <2>1, <2>3, <2>5, Zenon DEF StateMatchesRun, Frozen
  <2>10. VerifiedBeforeShutdown'
    <3>1. ASSUME NEW q \in Runs, all_apps_verified(q) PROVE q # r /\ all_apps_verified(q)'
      BY <2>1, <2>4, <3>1, Zenon DEF all_apps_verified, Frozen, IInv, RunInv
    <3> QED
      BY <2>2, <2>5, <3>1, Zenon DEF VerifiedBeforeShutdown, IInv
  <2> QED
    BY <2>6, <2>7, <2>8, <2>9, <2>10, Zenon DEF IInv
<1>2. CASE NextApp
  <2>1. PICK a \in Frozen(eng.run) :
          /\ rows[eng.run][a].status # "VERIFIED"
          /\ eng' = [eng EXCEPT !.app = a, !.polls = 0,
                      !.resumed = rows[eng.run][a].status = "RUNNING",
                      !.pc = IF rows[eng.run][a].status = "RUNNING"
                             THEN "monitor" ELSE "probe"]
    BY <1>2, Zenon DEF NextApp
  <2>2. eng'.pc \in {"monitor", "probe"} /\ eng'.run = eng.run /\ eng'.app = a
    BY <1>0, <2>1, Zenon DEF EngineType
  <2>3. eng.pc = "app" /\ UNCHANGED <<state, activeRun, runStatus, rows, instance>>
    BY <1>2, Zenon DEF NextApp, At, dbVars, envVars
  <2> USE DEF IInv, EngineInv, RunInv, ReloadKeepsRun, StateMatchesRun, VerifiedBeforeShutdown,
              RunPcs, AppPcs, ProviderPcs, Frozen, all_apps_verified, run_is_active
  <2>4. EngineInv'
    BY <2>1, <2>2, <2>3, Zenon
  <2>5. RunInv'
    BY <2>3, Zenon
  <2>6. ReloadKeepsRun'
    BY <2>2, <2>3, Zenon
  <2>7. StateMatchesRun'
    BY <2>3, Zenon
  <2>8. VerifiedBeforeShutdown'
    BY <2>2, <2>3
  <2> QED
    BY <2>4, <2>5, <2>6, <2>7, <2>8, Zenon
<1> QED
  BY <1>1, <1>2, Zenon

\* Before a run exists, a tick moves between the states that have none.
LEMMA WatchingKept ==
    ASSUME IInv, TypeOK', UNCHANGED <<activeRun, runStatus, rows, instance>>,
           eng'.run = NoRun, eng'.pc \notin RunPcs,
           \/ state' = state
           \/ /\ state \in WatchingStates
              /\ state' \in WatchingStates \cup {"BACKUP_FAILED_SAFE"},
           eng'.pc \in {"latch", "latchDisabled", "toIdle", "timeout"}
             => state' \in {"DISABLED", "MONITORING"},
           eng'.pc \in {"toSelect", "select"}
             => state' \in {"TIMEOUT_REACHED", "SELECTING_APPLICATIONS"}
    PROVE  IInv'
<1>1. EngineInv'
  BY Zenon DEF EngineInv, RunPcs, AppPcs, ProviderPcs
<1>2. RunInv'
  BY Zenon DEF IInv, RunInv, StateMatchesRun, Frozen, WatchingStates
<1>3. ReloadKeepsRun'
  BY Zenon DEF ReloadKeepsRun
<1>4. StateMatchesRun'
  BY Zenon DEF IInv, StateMatchesRun, Frozen, WatchingStates
<1>5. VerifiedBeforeShutdown'
  <2>1. \A r \in Runs \cup {NoRun} : all_apps_verified(r)' <=> all_apps_verified(r)
    BY Zenon DEF all_apps_verified, Frozen
  <2>2. activeRun \in Runs \cup {NoRun}
    BY Zenon DEF IInv, TypeOK
  <2> QED
    BY <2>1, <2>2, Zenon DEF IInv, VerifiedBeforeShutdown, RunPcs, WatchingStates
<1> QED
  BY <1>1, <1>2, <1>3, <1>4, <1>5, Zenon DEF IInv

\* tick up to the start or the resumption of a run: every action keeps the invariant.
LEMMA MonitoringStep ==
    ASSUME IInv, TypeOK',
           \/ TickBegin \/ TickDisabled \/ UpdateUsage \/ TickSnapshot \/ TickLatch
           \/ TickMonitoring \/ TickTimeoutReached \/ TickSelecting \/ SelectNothing
    PROVE  IInv'
<1>0. /\ eng \in EngineType
      /\ eng.pc \notin RunPcs => eng.run = NoRun
      /\ eng.pc \in {"latch", "latchDisabled", "toIdle", "timeout"}
           => state \in {"DISABLED", "MONITORING"}
      /\ eng.pc \in {"toSelect", "select"}
           => state \in {"TIMEOUT_REACHED", "SELECTING_APPLICATIONS"}
  BY Zenon DEF IInv, TypeOK, EngineInv
<1> USE DEF dbVars, envVars, At, RunPcs
<1>1. IdleEngine.pc = "idle" /\ IdleEngine.run = NoRun
  BY Zenon DEF IdleEngine
<1>2. CASE TickBegin
  <2>1. eng'.pc \in {"usage", "disabling"} /\ eng'.run = NoRun
    BY <1>0, <1>2, Zenon DEF TickBegin, Goto, EngineType
  <2> QED
    BY <1>2, <2>1, WatchingKept, Zenon DEF TickBegin
<1>3. CASE TickDisabled
  BY <1>3, MonitoringReset, Zenon DEF TickDisabled
<1>4. CASE UpdateUsage
  <2>1. eng'.pc = "snapshot" /\ eng'.run = NoRun
    BY <1>0, <1>4, Zenon DEF UpdateUsage, Goto, EngineType
  <2> QED
    BY <1>4, <2>1, WatchingKept, Zenon DEF UpdateUsage
<1>5. CASE TickSnapshot
  <2>1. CASE run_is_active(state) /\ activeRun # NoRun
    <3>1. eng'.pc = "load" /\ eng'.run = activeRun
      BY <1>5, <2>1, Zenon DEF TickSnapshot, IdleEngine
    <3>2. UNCHANGED <<state, activeRun, runStatus, rows, instance>>
      BY <1>5, Zenon DEF TickSnapshot
    <3>3. EngineInv'
      BY <2>1, <3>1, <3>2, Zenon DEF EngineInv, AppPcs, ProviderPcs
    <3>4. RunInv' /\ ReloadKeepsRun' /\ StateMatchesRun'
      BY <2>1, <3>1, <3>2, Zenon DEF IInv, RunInv, ReloadKeepsRun, StateMatchesRun, Frozen, run_is_active
    <3>5. VerifiedBeforeShutdown'
      BY <3>1, <3>2, Zenon DEF IInv, VerifiedBeforeShutdown, all_apps_verified, Frozen
    <3> QED
      BY <3>3, <3>4, <3>5, Zenon DEF IInv
  <2>2. CASE ~(run_is_active(state) /\ activeRun # NoRun)
    <3>1. \/ eng' = IdleEngine
          \/ /\ eng'.pc \in {"latch", "latchDisabled"} /\ eng'.run = NoRun
             /\ state \in {"DISABLED", "MONITORING"}
      BY <1>5, <2>2, Zenon DEF TickSnapshot, IdleEngine, run_is_active, TerminalStates,
         LifecycleState, IInv, TypeOK
    <3> QED
      BY <1>1, <1>5, <3>1, WatchingKept, Zenon DEF TickSnapshot
  <2> QED
    BY <2>1, <2>2, Zenon
<1>6. CASE TickLatch
  <2>1. \/ eng' = IdleEngine
        \/ eng'.pc \in {"timeout", "toIdle"} /\ eng'.run = NoRun
    BY <1>0, <1>6, Zenon DEF TickLatch, EngineType
  <2> QED
    BY <1>0, <1>1, <1>6, <2>1, WatchingKept, Zenon DEF TickLatch
<1>7. CASE TickMonitoring
  BY <1>0, <1>1, <1>7, WatchingKept, Zenon DEF TickMonitoring, transition, WatchingStates
<1>8. CASE TickTimeoutReached
  <2>1. eng'.pc = "toSelect" /\ eng'.run = NoRun
    BY <1>0, <1>8, Zenon DEF TickTimeoutReached, Goto, EngineType
  <2> QED
    BY <1>0, <1>8, <2>1, WatchingKept, Zenon DEF TickTimeoutReached, transition, WatchingStates
<1>9. CASE TickSelecting
  <2>1. eng'.pc = "select" /\ eng'.run = NoRun
    BY <1>0, <1>9, Zenon DEF TickSelecting, Goto, EngineType
  <2> QED
    BY <1>0, <1>9, <2>1, WatchingKept, Zenon DEF TickSelecting, transition, WatchingStates
<1>10. CASE SelectNothing
  BY <1>0, <1>1, <1>10, WatchingKept, Zenon DEF SelectNothing, fail_run, WatchingStates
<1> QED
  BY <1>2, <1>3, <1>4, <1>5, <1>6, <1>7, <1>8, <1>9, <1>10, Zenon

\* execute_run and backup_app: every action keeps the invariant.
LEMMA BackupStep ==
    ASSUME IInv, TypeOK',
           \/ LoadCapability \/ CapabilityUnusable \/ AppsDone \/ ProbeBaseline \/ ProbeFails
           \/ StartBackup \/ StartBackupFails \/ MarkRunning \/ PollInProgress \/ PollCompleted
           \/ MonitorFails \/ VerifyCommit \/ MarkVerified \/ MarkFailed \/ FailBackup
           \/ BackupDbError
    PROVE  IInv'
<1>0. /\ TypeOK /\ eng \in EngineType
      /\ \A r \in Runs, a \in Apps : rows[r][a] \in RowType
      /\ eng.pc \in AppPcs => /\ eng.run \in Runs /\ eng.app \in Apps
                              /\ rows[eng.run][eng.app].status # "VERIFIED"
  BY DEF IInv, TypeOK, EngineInv, EngineType, Frozen, RunPcs, AppPcs
<1> USE DEF dbVars, envVars, At
<1>1. rows' = rows => KeepsRows
  BY Zenon DEF KeepsRows
<1>2. CASE LoadCapability
  <2>1. eng'.pc = "app" /\ eng'.run = eng.run
    BY <1>0, <1>2, Zenon DEF LoadCapability, EngineType
  <2> QED
    BY <1>1, <1>2, <2>1, BackupKept, Zenon DEF LoadCapability, RunPcs, ProviderPcs
<1>3. CASE CapabilityUnusable
  BY <1>3, RunFailed, Zenon DEF CapabilityUnusable, RunPcs
<1>4. CASE AppsDone
  <2>1. eng'.run = eng.run
    BY <1>0, <1>4, Zenon DEF AppsDone, Goto, EngineType
  <2>2. CASE all_apps_verified(eng.run)
    <3>1. eng'.pc = "provider"
      BY <1>0, <1>4, <2>2, Zenon DEF AppsDone, Goto, EngineType
    <3>2. UNCHANGED <<state, activeRun, runStatus, rows, instance>> /\ eng.pc = "app"
      BY <1>4, Zenon DEF AppsDone
    <3>3. all_apps_verified(eng.run)'
      BY <2>1, <2>2, <3>2, Zenon DEF all_apps_verified, Frozen
    <3>4. EngineInv'
      BY <2>1, <3>1, <3>2, <3>3, Zenon DEF IInv, EngineInv, RunPcs, AppPcs, ProviderPcs
    <3>5. RunInv'
      BY <3>2, Zenon DEF IInv, RunInv, Frozen
    <3>6. ReloadKeepsRun' /\ StateMatchesRun'
      BY <2>1, <3>2, Zenon DEF IInv, ReloadKeepsRun, StateMatchesRun, Frozen, run_is_active
    <3>7. VerifiedBeforeShutdown'
      BY <3>2, <3>3, Zenon DEF IInv, VerifiedBeforeShutdown, all_apps_verified, Frozen
    <3> QED
      BY <3>4, <3>5, <3>6, <3>7, Zenon DEF IInv
  <2>3. CASE ~all_apps_verified(eng.run)
    <3>1. eng'.pc = "failRun"
      BY <1>0, <1>4, <2>3, Zenon DEF AppsDone, Goto, EngineType
    <3> QED
      BY <1>1, <1>4, <2>1, <3>1, BackupKept, Zenon DEF AppsDone, RunPcs, ProviderPcs
  <2> QED
    BY <2>2, <2>3, Zenon
<1>5. CASE ProbeBaseline
  <2>1. eng'.pc \in {"start", "failRun"} /\ eng'.run = eng.run /\ eng'.app = eng.app
    BY <1>0, <1>5, Zenon DEF ProbeBaseline, EngineType
  <2> QED
    BY <1>1, <1>5, <2>1, BackupKept, Zenon DEF ProbeBaseline, RunPcs, AppPcs, ProviderPcs
<1>6. CASE ProbeFails
  <2>1. eng'.pc = "failRun" /\ eng'.run = eng.run
    BY <1>0, <1>6, Zenon DEF ProbeFails, Goto, EngineType
  <2> QED
    BY <1>1, <1>6, <2>1, BackupKept, Zenon DEF ProbeFails, RunPcs, ProviderPcs
<1>7. CASE StartBackup
  <2>1. eng'.pc = "mark" /\ eng'.run = eng.run /\ eng'.app = eng.app
    BY <1>0, <1>7, Zenon DEF StartBackup, Goto, EngineType
  <2> QED
    BY <1>1, <1>7, <2>1, BackupKept, Zenon DEF StartBackup, RunPcs, AppPcs, ProviderPcs
<1>8. CASE StartBackupFails
  <2>1. eng'.pc \in {"start", "failApp"} /\ eng'.run = eng.run /\ eng'.app = eng.app
    BY <1>0, <1>8, Zenon DEF StartBackupFails, Goto, EngineType
  <2>2. KeepsRows
    BY <1>0, <1>8, RowUpdatesKeep, Zenon DEF StartBackupFails
  <2> QED
    BY <1>8, <2>1, <2>2, BackupKept, Zenon DEF StartBackupFails, RunPcs, AppPcs, ProviderPcs
<1>9. CASE MarkRunning
  <2>1. eng'.pc = "monitor" /\ eng'.run = eng.run /\ eng'.app = eng.app
    BY <1>0, <1>9, Zenon DEF MarkRunning, EngineType
  <2>2. KeepsRows
    BY <1>0, <1>9, RowUpdatesKeep, Zenon DEF MarkRunning
  <2> QED
    BY <1>9, <2>1, <2>2, BackupKept, Zenon DEF MarkRunning, RunPcs, AppPcs, ProviderPcs
<1>10. CASE PollInProgress
  <2>1. eng'.pc = "monitor" /\ eng'.run = eng.run /\ eng'.app = eng.app
    BY <1>0, <1>10, Zenon DEF PollInProgress, EngineType
  <2> QED
    BY <1>1, <1>10, <2>1, BackupKept, Zenon DEF PollInProgress, RunPcs, AppPcs, ProviderPcs
<1>11. CASE PollCompleted
  <2>1. eng'.pc = "verify" /\ eng'.run = eng.run /\ eng'.app = eng.app
    BY <1>0, <1>11, Zenon DEF PollCompleted, Goto, EngineType
  <2> QED
    BY <1>1, <1>11, <2>1, BackupKept, Zenon DEF PollCompleted, transition, RunPcs, AppPcs, ProviderPcs
<1>12. CASE MonitorFails
  <2>1. eng'.pc \in {"probe", "start", "failRun"} /\ eng'.run = eng.run /\ eng'.app = eng.app
    BY <1>0, <1>12, Zenon DEF MonitorFails, Goto, EngineType
  <2>2. KeepsRows
    BY <1>0, <1>12, RowUpdatesKeep, Zenon DEF MonitorFails
  <2> QED
    BY <1>12, <2>1, <2>2, BackupKept, Zenon DEF MonitorFails, RunPcs, AppPcs, ProviderPcs
<1>13. CASE VerifyCommit
  <2>1. eng'.pc = "verified" /\ eng'.run = eng.run /\ eng'.app = eng.app
    BY <1>0, <1>13, Zenon DEF VerifyCommit, Goto, EngineType
  <2> QED
    BY <1>1, <1>13, <2>1, BackupKept, Zenon DEF VerifyCommit, transition, RunPcs, AppPcs, ProviderPcs
<1>14. CASE MarkVerified
  <2>1. eng'.pc = "app" /\ eng'.run = eng.run
    BY <1>0, <1>14, Zenon DEF MarkVerified, EngineType
  <2>2. UNCHANGED <<state, activeRun, runStatus, instance>> /\ eng.pc = "verified"
    BY <1>14, Zenon DEF MarkVerified
  <2>2a. rows \in [Runs -> [Apps -> RowType]] /\ mark_app_verified(eng.run, eng.app)
    BY <1>14, Zenon DEF MarkVerified, IInv, TypeOK
  <2>3. \A r \in Runs, a \in Apps :
          /\ rows'[r][a].rank = rows[r][a].rank
          /\ rows[r][a].status = "VERIFIED" => rows'[r][a].status = "VERIFIED"
    BY <2>2a DEF mark_app_verified, RowType
  <2>4. ASSUME NEW r \in Runs, all_apps_verified(r) PROVE all_apps_verified(r)'
    BY <2>3, <2>4, Zenon DEF all_apps_verified, Frozen
  <2>5. \A r \in Runs : Frozen(r)' = Frozen(r)
    BY <2>3, Zenon DEF Frozen
  <2>6. activeRun \in Runs \cup {NoRun}
    BY Zenon DEF IInv, TypeOK
  <2>7. EngineInv'
    BY <2>1, <2>2, Zenon DEF IInv, EngineInv, RunPcs, AppPcs, ProviderPcs
  <2>8. RunInv'
    BY <2>2, <2>3, <2>6, Zenon DEF IInv, RunInv, Frozen
  <2>9. ReloadKeepsRun' /\ StateMatchesRun'
    BY <2>1, <2>2, <2>3, <2>6, Zenon DEF IInv, ReloadKeepsRun, StateMatchesRun, Frozen, run_is_active
  <2>10. VerifiedBeforeShutdown'
    BY <2>1, <2>2, <2>4, <2>6, Zenon DEF IInv, VerifiedBeforeShutdown
  <2> QED
    BY <2>7, <2>8, <2>9, <2>10, Zenon DEF IInv
<1>15. CASE MarkFailed
  <2>1. eng'.pc = "failRun" /\ eng'.run = eng.run
    BY <1>0, <1>15, Zenon DEF MarkFailed, Goto, EngineType
  <2>2. KeepsRows
    BY <1>0, <1>15, RowUpdatesKeep, Zenon DEF MarkFailed
  <2> QED
    BY <1>15, <2>1, <2>2, BackupKept, Zenon DEF MarkFailed, RunPcs, AppPcs, ProviderPcs
<1>16. CASE FailBackup
  BY <1>16, RunFailed, Zenon DEF FailBackup, RunPcs
<1>17. CASE BackupDbError
  <2>1. eng'.pc = "failRun" /\ eng'.run = eng.run
    BY <1>0, <1>17, Zenon DEF BackupDbError, Goto, EngineType
  <2> QED
    BY <1>1, <1>17, <2>1, BackupKept, Zenon DEF BackupDbError, RunPcs, AppPcs, ProviderPcs
<1> QED
  BY <1>2, <1>3, <1>4, <1>5, <1>6, <1>7, <1>8, <1>9, <1>10, <1>11, <1>12, <1>13, <1>14,
     <1>15, <1>16, <1>17, Zenon

\* The provider loop moves between attempts with everything verified.
LEMMA ProviderKept ==
    ASSUME IInv, TypeOK', UNCHANGED <<activeRun, rows>>,
           eng.pc \in ProviderPcs, eng'.pc \in ProviderPcs, eng'.run = eng.run,
           \A r \in Runs : runStatus'[r] = runStatus[r] \/ runStatus'[r] = "SHUTTING_DOWN",
           state' \in {"SHUTTING_DOWN", "SHUTDOWN_RETRY_WAIT"} \/ state' = state,
           eng'.pc \in {"calling", "retry", "complete"} => state' = "SHUTTING_DOWN"
    PROVE  IInv'
<1>1. /\ activeRun = eng.run /\ eng.run \in Runs /\ run_is_active(state)
      /\ all_apps_verified(eng.run)
  BY Zenon DEF IInv, TypeOK, EngineType, EngineInv, ReloadKeepsRun, RunPcs, ProviderPcs
<1>2. all_apps_verified(eng.run)' /\ all_apps_verified(activeRun)'
  BY <1>1, Zenon DEF all_apps_verified, Frozen
<1>3. EngineInv'
  BY <1>2, Zenon DEF IInv, EngineInv, RunPcs, AppPcs, ProviderPcs
<1>4. RunInv'
  BY <1>1, ConstantsAssumption, Zenon DEF IInv, RunInv, Frozen, TerminalStates
<1>5. ReloadKeepsRun'
  BY <1>1, Zenon DEF ReloadKeepsRun, run_is_active
<1>6. StateMatchesRun'
  BY <1>1, Zenon DEF IInv, StateMatchesRun, Frozen
<1>7. VerifiedBeforeShutdown'
  BY <1>1, <1>2, ConstantsAssumption, Zenon DEF VerifiedBeforeShutdown
<1> QED
  BY <1>3, <1>4, <1>5, <1>6, <1>7, Zenon DEF IInv

\* The provider loop: every action keeps the invariant.
LEMMA ProviderStep ==
    ASSUME IInv, TypeOK',
           \/ ProviderAttempt \/ ProviderOk \/ ProviderErr \/ ProviderRetry \/ CompleteRun
    PROVE  IInv'
<1>0. /\ eng \in EngineType /\ runStatus \in [Runs -> LifecycleState \cup {"NONE"}]
      /\ eng.pc \in ProviderPcs => activeRun = eng.run /\ eng.run \in Runs
      /\ eng.pc \in {"calling", "retry", "complete"} => state = "SHUTTING_DOWN"
  BY Zenon DEF IInv, TypeOK, EngineInv, EngineType, RunPcs, ProviderPcs, ReloadKeepsRun
<1> USE DEF dbVars, envVars, At
<1>1. CASE ProviderAttempt
  <2>1. CASE eng.cap
    <3>1. eng'.pc = "calling" /\ eng'.run = eng.run
      BY <1>0, <1>1, <2>1, Zenon DEF ProviderAttempt, Goto, EngineType
    <3>2. /\ \A r \in Runs : runStatus'[r] = runStatus[r] \/ runStatus'[r] = "SHUTTING_DOWN"
          /\ state' = "SHUTTING_DOWN" /\ UNCHANGED <<activeRun, rows>> /\ eng.pc = "provider"
      BY <1>0, <1>1, <2>1, Zenon DEF ProviderAttempt, mark_shutdown_started, ProviderPcs
    <3> QED
      BY <3>1, <3>2, ProviderKept, Zenon DEF ProviderPcs
  <2>2. CASE ~eng.cap
    BY <1>1, <2>2, RunFailed, Zenon DEF ProviderAttempt, RunPcs, ProviderPcs
  <2> QED
    BY <2>1, <2>2, Zenon
<1>2. CASE ProviderOk
  <2>1. eng'.pc = "complete" /\ eng'.run = eng.run
    BY <1>0, <1>2, Zenon DEF ProviderOk, Goto, EngineType
  <2> QED
    BY <1>0, <1>2, <2>1, ProviderKept, Zenon DEF ProviderOk, ProviderPcs
<1>3. CASE ProviderErr
  <2>1. eng'.pc = "retry" /\ eng'.run = eng.run
    BY <1>0, <1>3, Zenon DEF ProviderErr, Goto, EngineType
  <2> QED
    BY <1>0, <1>3, <2>1, ProviderKept, Zenon DEF ProviderErr, ProviderPcs
<1>4. CASE ProviderRetry
  <2>1. CASE eng.tries < BACKOFFS
    <3>1. eng'.pc = "provider" /\ eng'.run = eng.run
      BY <1>0, <1>4, <2>1, Zenon DEF ProviderRetry, EngineType
    <3> QED
      BY <1>4, <2>1, <3>1, ProviderKept, Zenon DEF ProviderRetry, transition, ProviderPcs
  <2>2. CASE ~(eng.tries < BACKOFFS)
    BY <1>4, <2>2, RunFailed, Zenon DEF ProviderRetry, RunPcs, ProviderPcs
  <2> QED
    BY <2>1, <2>2, Zenon
<1>5. CASE CompleteRun
  BY <1>5, RunFailed, Zenon DEF CompleteRun, RunPcs, ProviderPcs
<1> QED
  BY <1>1, <1>2, <1>3, <1>4, <1>5, Zenon

\* The capability expiring under the run changes no decision already taken.
LEMMA ExpiryStep == ASSUME IInv, TypeOK', ExpireCapability PROVE IInv'
<1>1. eng'.pc = eng.pc /\ eng'.run = eng.run /\ eng'.app = eng.app
  BY Zenon DEF ExpireCapability, IInv, TypeOK, EngineType
<1> QED
  BY <1>1 DEF ExpireCapability, dbVars, envVars, IInv, EngineInv, RunInv, ReloadKeepsRun,
     StateMatchesRun, VerifiedBeforeShutdown, Frozen, all_apps_verified, run_is_active

\* Every step keeps the inductive invariant.
LEMMA InvStep == IInv /\ [Next]_vars => IInv'
<1> SUFFICES ASSUME IInv, [Next]_vars PROVE IInv'
  BY Zenon
<1>0. TypeOK'
  BY TypeStep, Zenon DEF IInv
<1> USE <1>0 DEF dbVars, memVars, rpcVars, envVars, ghostVars
<1>1. CASE EngineStep
  BY <1>1, MonitoringStep, SelectionStep, BackupStep, ProviderStep, Zenon DEF EngineStep
<1>2. ASSUME NEW h \in Handlers, ReloadLoad(h) \/ ReloadSwap(h) \/ ReloadRefused(h)
                                \/ ReloadRearm(h) \/ ReloadDbError(h)
      PROVE  IInv'
  BY <1>2, Frame, Zenon DEF ReloadLoad, ReloadSwap, ReloadRefused, ReloadRearm, ReloadDbError
<1>3. ASSUME NEW h \in Handlers, ReloadResetFailure(h) \/ ReloadInitialize(h) \/ ReloadDisable(h)
      PROVE  IInv'
  BY <1>3, MonitoringReset, Zenon DEF ReloadResetFailure, ReloadInitialize, ReloadDisable
<1>4. CASE Start
  BY <1>4, MonitoringReset, Zenon DEF Start
<1>5. CASE Crash \/ InstanceHalts \/ TickDbError
  BY <1>5, TickGivenUp, Zenon DEF Crash, InstanceHalts, TickDbError, Stopped
<1>6. CASE InstanceBoots
  BY <1>6, Zenon DEF InstanceBoots, IInv, EngineInv, RunInv, ReloadKeepsRun, StateMatchesRun,
     VerifiedBeforeShutdown, Frozen, all_apps_verified, run_is_active
<1>7. CASE BackupDbError \/ ExpireCapability
  BY <1>7, BackupStep, ExpiryStep, Zenon
<1>8. CASE RecordActivity \/ ClockTick
  BY <1>8, Frame, Zenon DEF RecordActivity, ClockTick
<1>9. ASSUME NEW a \in Apps, NEW m \in Modes, BackupCommits(a, m) PROVE IInv'
  BY <1>9, Frame, Zenon DEF BackupCommits
<1>10. CASE UNCHANGED vars
  BY <1>10, Frame, Zenon DEF vars
<1> QED
  BY <1>1, <1>2, <1>3, <1>4, <1>5, <1>6, <1>7, <1>8, <1>9, <1>10, Zenon
  DEF Next, HandlerStep, FaultStep, WorldStep

\* The freshly created database satisfies it.
LEMMA InvInit == Init => IInv
<1> SUFFICES ASSUME Init PROVE IInv
  BY Zenon
<1>1. TypeOK
  <2>1. eng \in EngineType
    BY IdleType, Zenon DEF Init
  <2>2. rows \in [Runs -> [Apps -> RowType]]
    BY ConstantsAssumption DEF Init, NoRow, RowType, NoOp
  <2>3. launches \in [Runs -> [Apps -> [Modes -> Nat]]]
    BY Zenon DEF Init
  <2>4. alive \in BOOLEAN /\ enabled \in BOOLEAN /\ latched \in BOOLEAN
    BY Zenon DEF Init
  <2>5. idle \in 0..Timeout /\ grace \in 0..Timeout /\ faults \in 0..MaxFaults
    BY ConstantsAssumption DEF Init
  <2>6. rpc \in [Handlers -> RpcPcs] /\ loaded \in [Handlers -> BOOLEAN]
    BY Zenon DEF Init, RpcPcs
  <2> QED
    BY <2>1, <2>2, <2>3, <2>4, <2>5, <2>6, Zenon DEF Init, TypeOK, LifecycleState
<1>2. eng.pc = "idle" /\ eng.run = NoRun
  BY Zenon DEF Init, IdleEngine
<1>3. \A r \in Runs : Frozen(r) = {}
  BY DEF Init, Frozen, NoRow
<1> QED
  BY <1>1, <1>2, <1>3, Zenon DEF Init, IInv, EngineInv, RunInv, ReloadKeepsRun, StateMatchesRun,
     VerifiedBeforeShutdown, RunPcs, AppPcs, ProviderPcs, run_is_active

-----------------------------------------------------------------------------
(* Theorems *)

\* The inductive invariant holds in every reachable state.
THEOREM Invariant == Spec => []IInv
BY InvInit, InvStep, PTL DEF Spec

\* Every variable of the agent, its database and its surroundings keeps its type.
THEOREM TypeCorrect == Spec => []TypeOK
<1>1. IInv => TypeOK
  BY Zenon DEF IInv
<1> QED
  BY <1>1, Invariant, PTL

\* The provider is asked to stop or destroy the instance only when the run froze
\* applications and every one of them is VERIFIED (the check before
\* execute_run's provider loop), whatever crashes and reloads happen.
THEOREM NoShutdownUnverified == Spec => []VerifiedBeforeShutdown
<1>1. IInv => VerifiedBeforeShutdown
  BY Zenon DEF IInv
<1> QED
  BY <1>1, Invariant, PTL

\* reload_config never takes the active run away from the tick executing it.
THEOREM RunSurvivesReload == Spec => []ReloadKeepsRun
<1>1. IInv => ReloadKeepsRun
  BY Zenon DEF IInv
<1> QED
  BY <1>1, Invariant, PTL

\* The persisted state and active_run_id always agree.
THEOREM StateAndRunAgree == Spec => []StateMatchesRun
<1>1. IInv => StateMatchesRun
  BY Zenon DEF IInv
<1> QED
  BY <1>1, Invariant, PTL

-----------------------------------------------------------------------------
(* Which run a step can touch *)

\* The transactions that update one row of backup_apps.
RowUpdate(r, a) ==
    \/ \E op \in Modes \cup {NoOp} : mark_app_running(r, a, op)
    \/ record_start_failure(r, a)
    \/ mark_app_pending_retry(r, a)
    \/ mark_app_failed(r, a)
    \/ mark_app_verified(r, a)

\* backup_apps changes only by an update of the row in hand, or by the rows of
\* a new run.
LEMMA TableStep ==
    ASSUME IInv, [Next]_vars
    PROVE  \/ rows' = rows
           \/ eng.run \in Runs /\ eng.app \in Apps /\ RowUpdate(eng.run, eng.app)
           \/ \E r \in Runs : /\ runStatus[r] = "NONE"
                              /\ \E rk \in [Apps -> 0..Limit] : create_run_with_frozen_apps(r, rk)
<1>0. /\ eng.pc \in AppPcs => eng.run \in Runs /\ eng.app \in Apps
      /\ eng.mode \in Modes \cup {NoOp}
  BY Zenon DEF IInv, TypeOK, EngineInv, EngineType, Frozen, RunPcs, AppPcs
<1> USE DEF dbVars, At
<1>1. CASE \/ TickBegin \/ TickDisabled \/ UpdateUsage \/ TickSnapshot \/ TickLatch
           \/ TickMonitoring \/ TickTimeoutReached \/ TickSelecting \/ SelectNothing
  BY <1>1, Zenon DEF TickBegin, TickDisabled, UpdateUsage, TickSnapshot, TickLatch, TickMonitoring,
     TickTimeoutReached, TickSelecting, SelectNothing
<1>2. CASE FreezeApps
  BY <1>2, Zenon DEF FreezeApps
<1>3. CASE \/ LoadCapability \/ CapabilityUnusable \/ NextApp \/ AppsDone \/ ProbeBaseline
           \/ ProbeFails \/ StartBackup \/ PollInProgress \/ PollCompleted \/ VerifyCommit
           \/ FailBackup
  BY <1>3, Zenon DEF LoadCapability, CapabilityUnusable, NextApp, AppsDone, ProbeBaseline,
     ProbeFails, StartBackup, PollInProgress, PollCompleted, VerifyCommit, FailBackup
<1>4. CASE StartBackupFails \/ MarkRunning \/ MonitorFails \/ MarkVerified \/ MarkFailed
  BY <1>0, <1>4, Zenon DEF StartBackupFails, MarkRunning, MonitorFails, MarkVerified, MarkFailed,
     RowUpdate, AppPcs
<1>5. CASE ProviderAttempt \/ ProviderOk \/ ProviderErr \/ ProviderRetry \/ CompleteRun
  BY <1>5, Zenon DEF ProviderAttempt, ProviderOk, ProviderErr, ProviderRetry, CompleteRun
<1>6. ASSUME NEW h \in Handlers, ReloadLoad(h) \/ HandlerStep(h) PROVE rows' = rows
  BY <1>6, Zenon DEF ReloadLoad, HandlerStep, ReloadSwap, ReloadRefused, ReloadResetFailure,
     ReloadInitialize, ReloadRearm, ReloadDisable
<1>7. CASE Start \/ FaultStep
  BY <1>7, Zenon DEF Start, FaultStep, Crash, InstanceHalts, InstanceBoots, TickDbError,
     BackupDbError, ReloadDbError
<1>8. CASE WorldStep
  BY <1>8, Zenon DEF WorldStep, RecordActivity, ClockTick, ExpireCapability, BackupCommits
<1>9. CASE UNCHANGED vars
  BY <1>9, Zenon DEF vars
<1> QED
  BY <1>1, <1>2, <1>3, <1>4, <1>5, <1>6, <1>7, <1>8, <1>9, Zenon DEF Next, EngineStep

\* lifecycle_runs changes only for the run in hand, or by a new run.
LEMMA StatusStep ==
    ASSUME IInv, [Next]_vars, NEW r \in Runs, r # eng.run, runStatus[r] # "NONE"
    PROVE  runStatus'[r] = runStatus[r]
<1>0. runStatus \in [Runs -> LifecycleState \cup {"NONE"}]
  BY Zenon DEF IInv, TypeOK
<1> USE DEF dbVars
<1>1. CASE \/ TickBegin \/ TickDisabled \/ UpdateUsage \/ TickSnapshot \/ TickLatch
           \/ TickMonitoring \/ TickTimeoutReached \/ TickSelecting \/ SelectNothing
  BY <1>1, Zenon DEF TickBegin, TickDisabled, UpdateUsage, TickSnapshot, TickLatch, TickMonitoring,
     TickTimeoutReached, TickSelecting, SelectNothing, fail_run
<1>2. CASE FreezeApps
  BY <1>0, <1>2, Zenon DEF FreezeApps, create_run_with_frozen_apps
<1>3. CASE \/ LoadCapability \/ NextApp \/ AppsDone \/ ProbeBaseline \/ ProbeFails
           \/ StartBackup \/ StartBackupFails \/ MarkRunning \/ PollInProgress
           \/ PollCompleted \/ MonitorFails \/ VerifyCommit \/ MarkVerified \/ MarkFailed
  BY <1>3, Zenon DEF LoadCapability, NextApp, AppsDone, ProbeBaseline, ProbeFails, StartBackup,
     StartBackupFails, MarkRunning, PollInProgress, PollCompleted, MonitorFails, VerifyCommit,
     MarkVerified, MarkFailed
<1>4. CASE CapabilityUnusable \/ FailBackup
  BY <1>0, <1>4, Zenon DEF CapabilityUnusable, FailBackup, fail_run
<1>5. CASE ProviderAttempt \/ ProviderOk \/ ProviderErr \/ ProviderRetry \/ CompleteRun
  BY <1>0, <1>5, Zenon DEF ProviderAttempt, ProviderOk, ProviderErr, ProviderRetry, CompleteRun,
     mark_shutdown_started, fail_run, complete_run
<1>6. ASSUME NEW h \in Handlers, ReloadLoad(h) \/ HandlerStep(h) PROVE runStatus' = runStatus
  BY <1>6, Zenon DEF ReloadLoad, HandlerStep, ReloadSwap, ReloadRefused, ReloadResetFailure,
     ReloadInitialize, ReloadRearm, ReloadDisable
<1>7. CASE Start \/ FaultStep
  BY <1>7, Zenon DEF Start, FaultStep, Crash, InstanceHalts, InstanceBoots, TickDbError,
     BackupDbError, ReloadDbError
<1>8. CASE WorldStep
  BY <1>8, Zenon DEF WorldStep, RecordActivity, ClockTick, ExpireCapability, BackupCommits
<1>9. CASE UNCHANGED vars
  BY <1>9, Zenon DEF vars
<1> QED
  BY <1>1, <1>2, <1>3, <1>4, <1>5, <1>6, <1>7, <1>8, <1>9, Zenon DEF Next, EngineStep

\* An update of one row keeps its rank, takes back no attempt and no verification.
LEMMA RowAdvances ==
    ASSUME TypeOK, NEW r \in Runs, NEW a \in Apps, RowUpdate(r, a)
    PROVE  \A q \in Runs, b \in Apps :
             /\ rows'[q][b].rank = rows[q][b].rank
             /\ rows'[q][b].attempts >= rows[q][b].attempts
             /\ rows[q][b].status = "VERIFIED" => rows'[q][b].status = "VERIFIED"
             /\ q # r => rows'[q] = rows[q]
<1>1. rows \in [Runs -> [Apps -> RowType]]
  BY Zenon DEF TypeOK
<1>2. \A q \in Runs, b \in Apps : rows[q][b].attempts \in Nat
  BY <1>1, ConstantsAssumption DEF RowType
<1> DEFINE Elsewhere ==
             /\ \A q \in Runs, b \in Apps : q # r \/ b # a => rows'[q][b] = rows[q][b]
             /\ \A q \in Runs : q # r => rows'[q] = rows[q]
           Here ==
             /\ rows'[r][a].rank = rows[r][a].rank
             /\ rows'[r][a].attempts \in {rows[r][a].attempts, rows[r][a].attempts + 1}
             /\ rows[r][a].status = "VERIFIED" => rows'[r][a].status = "VERIFIED"
<1>3. ASSUME NEW op \in Modes \cup {NoOp}, mark_app_running(r, a, op) PROVE Elsewhere /\ Here
  <2>1. Elsewhere
    BY <1>1, <1>3, Zenon DEF mark_app_running
  <2>2. Here
    BY <1>1, <1>3 DEF mark_app_running, RowType
  <2> QED
    BY <2>1, <2>2, Zenon
<1>4. CASE record_start_failure(r, a)
  <2>1. Elsewhere
    BY <1>1, <1>4, Zenon DEF record_start_failure
  <2>2. Here
    BY <1>1, <1>4 DEF record_start_failure, RowType
  <2> QED
    BY <1>2, <2>1, <2>2
<1>5. CASE mark_app_pending_retry(r, a)
  <2>1. Elsewhere
    BY <1>1, <1>5, Zenon DEF mark_app_pending_retry
  <2>2. Here
    BY <1>1, <1>5 DEF mark_app_pending_retry, RowType
  <2> QED
    BY <1>2, <2>1, <2>2
<1>6. CASE mark_app_failed(r, a)
  <2>1. Elsewhere
    BY <1>1, <1>6, Zenon DEF mark_app_failed
  <2>2. Here
    BY <1>1, <1>6 DEF mark_app_failed, RowType
  <2> QED
    BY <1>2, <2>1, <2>2
<1>7. CASE mark_app_verified(r, a)
  <2>1. Elsewhere
    BY <1>1, <1>7, Zenon DEF mark_app_verified
  <2>2. Here
    BY <1>1, <1>7 DEF mark_app_verified, RowType
  <2> QED
    BY <1>2, <2>1, <2>2
<1>8. Elsewhere /\ Here =>
        \A q \in Runs, b \in Apps :
             /\ rows'[q][b].rank = rows[q][b].rank
             /\ rows'[q][b].attempts >= rows[q][b].attempts
             /\ rows[q][b].status = "VERIFIED" => rows'[q][b].status = "VERIFIED"
             /\ q # r => rows'[q] = rows[q]
  BY <1>2
<1> HIDE DEF Elsewhere, Here
<1> QED
  BY <1>3, <1>4, <1>5, <1>6, <1>7, <1>8, Zenon DEF RowUpdate

-----------------------------------------------------------------------------
(* Theorems about steps *)

\* A run that failed safe or completed is never worked on again: no step touches
\* its status or its rows, whatever is reloaded or restarted (the tick only works
\* on the active run, and reset_terminal_failure clears active_run_id).
THEOREM FinishedRunsUntouched == Spec => FinishedRunsStayFinished
<1>1. ASSUME IInv, [Next]_vars, NEW r \in Runs, runStatus[r] \in TerminalStates
      PROVE  runStatus'[r] = runStatus[r] /\ rows'[r] = rows[r]
  <2>1. r # eng.run /\ runStatus[r] # "NONE"
    BY <1>1, ConstantsAssumption DEF IInv, RunInv, ReloadKeepsRun, TerminalStates, TypeOK
  <2>2. runStatus'[r] = runStatus[r]
    BY <1>1, <2>1, StatusStep, Zenon
  <2>3. CASE rows' = rows
    BY <2>2, <2>3, Zenon
  <2>4. CASE eng.run \in Runs /\ eng.app \in Apps /\ RowUpdate(eng.run, eng.app)
    BY <1>1, <2>1, <2>2, <2>4, RowAdvances, Zenon DEF IInv
  <2>5. CASE \E q \in Runs : /\ runStatus[q] = "NONE"
                             /\ \E rk \in [Apps -> 0..Limit] : create_run_with_frozen_apps(q, rk)
    BY <1>1, <2>1, <2>2, <2>5, Zenon DEF create_run_with_frozen_apps, IInv, TypeOK
  <2> QED
    BY <1>1, <2>3, <2>4, <2>5, TableStep, Zenon
<1>2. IInv /\ [Next]_vars =>
        [\A r \in Runs : runStatus[r] \in TerminalStates =>
           runStatus'[r] = runStatus[r] /\ rows'[r] = rows[r]]_vars
  BY <1>1, Zenon
<1> QED
  BY <1>2, Invariant, PTL DEF Spec, FinishedRunsStayFinished

\* Within a run, the frozen selection never changes, no attempt is taken back and
\* a VERIFIED application stays VERIFIED.
THEOREM RunsAdvance == Spec => RunsOnlyAdvance
<1>1. ASSUME IInv, [Next]_vars, NEW r \in Runs, runStatus[r] # "NONE", NEW a \in Apps
      PROVE  /\ rows'[r][a].rank = rows[r][a].rank
             /\ rows'[r][a].attempts >= rows[r][a].attempts
             /\ rows[r][a].status = "VERIFIED" => rows'[r][a].status = "VERIFIED"
  <2>1. rows[r][a].attempts \in Nat
    BY <1>1, ConstantsAssumption DEF IInv, TypeOK, RowType
  <2>2. CASE rows' = rows
    BY <2>1, <2>2
  <2>3. CASE eng.run \in Runs /\ eng.app \in Apps /\ RowUpdate(eng.run, eng.app)
    BY <1>1, <2>3, RowAdvances, Zenon DEF IInv
  <2>4. CASE \E q \in Runs : /\ runStatus[q] = "NONE"
                             /\ \E rk \in [Apps -> 0..Limit] : create_run_with_frozen_apps(q, rk)
    <3>1. rows'[r] = rows[r]
      BY <1>1, <2>4, Zenon DEF create_run_with_frozen_apps, IInv, TypeOK
    <3> QED
      BY <2>1, <3>1
  <2> QED
    BY <1>1, <2>2, <2>3, <2>4, TableStep, Zenon
<1>2. IInv /\ [Next]_vars =>
        [\A r \in Runs : runStatus[r] # "NONE" =>
           \A a \in Apps :
              /\ rows'[r][a].rank = rows[r][a].rank
              /\ rows'[r][a].attempts >= rows[r][a].attempts
              /\ rows[r][a].status = "VERIFIED" => rows'[r][a].status = "VERIFIED"]_vars
  BY <1>1, Zenon
<1> QED
  BY <1>2, Invariant, PTL DEF Spec, RunsOnlyAdvance

=============================================================================
