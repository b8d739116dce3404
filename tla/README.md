# Verification of No Land

TLA+ specifications, TLC configurations and TLAPS proofs for No Land, kept beside the code they
model. Each definition is translated from the source; `PROJECT.json` ("map") gives its lines. Paths
below are relative to `src/`; `crates/` stands for `src/state-agent/crates/`.

## The system and its parts

No Land is a desktop application (Tauri, `src-tauri/`) that rents a GPU instance, provisions it over
SSH, connects to it through a managed tunnel and streams from it. Agents of its own run on the
instance. The instance can be taken away at any time, costs money while it exists, and the user's
files must not be lost with it: that is what most of the properties are about.

**On the instance.** Kernel events go through the observer's bounded queue to the attribution
engine, which writes a mutation journal and dirty marks (`crates/noland-observer`,
`noland-attribution`, `noland-state-db`). A backup of the state agent reads these, hashes and packs
files on a pool of threads, uploads packs, metadata, marker, catalog and LATEST pointer, and clears
the evidence; a seal does it for all dirty applications; a restore reads a bundle back. All of them
run as operations on the manager's two lanes (`noland-state-agent`, `noland-storage`,
`noland-restore`). The lifecycle agent waits for inactivity, asks the state agent for backups,
verifies them in the catalog and has the provider stop or destroy the instance. The network agent
answers probes and holds TURN allocations, the microphone agent receives RTP.

**On the desktop.** The orchestration rents, provisions and hands over to a guided setup; the
connection manager and the network helper own the tunnel; the stream runtime drives the Moonlight
library; the microphone sidecar captures audio; the shared-storage services hand operations to the
state agent; the shutdown settings are rolled out to the lifecycle agents; a tracker counts what
rentals cost; a feedback program uploads what the user agreed to. They share one state file and the
vault of the operating system.

`PROJECT.json` ("components") lists all parts, with the reason for what is left out.

## Modules

| Module | Models | State and steps |
|---|---|---|
| `LifecycleAgent` | `engine.rs`, `db.rs`, `activity.rs`, `main.rs` of the lifecycle agent | rows, configuration, latch and idle clock, the tick in progress (`eng`), reload handlers (`rpc`), storage and instance; one action per transaction or await |
| `SafeShutdown` | the promise of automatic shutdown | phase, selection, verified applications; no processes, no database |
| `QueueOps`, `EventQueue` | `noland-observer/src/queue.rs` | push with coalescing and eviction, drain, loss flag; all under one mutex |
| `BackupEvidence` | `process_events`, attribution, `run_backup`, `reconcile_app`, `run_seal` | one application's files, queue, journal rows, marks, the latest bundle, two lanes |
| `BackupPipeline` | the threads of `run_backup` | feeder, bounded channels and workers of the hashing and packing pools; commit; cancellation |
| `CatalogCommit` | `noland-storage/src/commit.rs`, the storage side of `run_backup` | packs, metadata, markers, catalogs, LATEST; commit rows, parent cache and pack index |
| `PackTransfer` | downloads, uploads, limiter, retry gate | flights, pack cache, links, chunks, back-off |
| `RestoreTransaction` | `noland-restore/src/lib.rs`, `run_restore_with_session` | files, directories, partials, journals and roll-back artifacts on disk; one action per durable effect |
| `StateOperations` | `rpc_handler.rs`, `operation_manager.rs`, recovery of rows | rows, entries, tasks, gates, one handler per connection |
| `PaidCreation` | `provider_creation.rs`, its callers and the state they share | intent in file and memory, the run, reloads, acknowledgement, refresh; the provider's answers |
| `Provisioning`, `SetupFlow`, `HostInstall` | `orchestration.rs`, `provisioning.rs`; `post_wireguard_setup.rs`; Sunshine, display and reboot services | run, lanes and checkpoints; setup session, pairing and records; what is on the host's disk and what runs |
| `SpendTracker` | spend ledger and budget | cursors, ledger, alerts, stop jobs, commands |
| `BackupHandoff`, `ShutdownRollout` | desktop side of backup, restore and seal; settings of automatic shutdown | one task per command, calls that fail or lose their answer |
| `FeedbackProgram`, `FeedbackJournal` | `services/feedback` | enrolment, choices, server; journals, revisions, deliveries |
| `StorageProfiles`, `LaunchLibrary`, `AppStateStore`, `PacketSize` | storage profiles and repository key; launches; state file and vault; `adaptive_packet_size.rs` | as named |
| `TunnelOwner`, `ConnectionSwitch`, `AgentDeploy`, `NetworkMonitor` | tunnel and helper; direct and relayed transport (both sides); deployment of the network agent; quality monitor and host registry | locks, files and processes; transaction with lease; scripts; probes and sessions |
| `MicSession`, `MicSidecar`, `AudioRing`, `RtpReceiver`, `StreamSession` | microphone from command to receiver; the game stream | sessions and handles; daemon; every atomic access of the ring; sequence numbers; runtime actor and native session |
| `MCCapture`, `MCCatalog`, `MCAgents`, `MCRestore`, `MCStores`, `MCDesktop`, `MCConnection` | nothing | instances for TLC |
| `LifecycleProofs`, `LifecyclePromises`, `QueueProofs`, `CatalogProofs`, `OperationsProofs`, `PaidProofs`, `RingProofs` | nothing | proofs |

`BackupEvidence` uses the `QueueOps` that `EventQueue` checks alone, so its queue is the real one.
`BackupEvidence`, `CatalogCommit` and `BackupPipeline` look at `run_backup` from three sides (what
goes into a bundle and which evidence it clears; how the bundle becomes visible; how its threads end);
each abstracts the others' side to a step that succeeds or fails. `MicSession` leaves out the chosen
device and the bitrate, which are passed through.

A definition whose comment starts with "Mutant" or "Mutation" is never part of a specification: it
is a plausible mistake in the definition that follows it, and the property that `PROJECT.json`
("mutants") names fails when it takes that definition's place.

### Several components in one run

Most MC modules check several components: a rigid variable `focus`, chosen in `PartInit` from the
constant `Parts`, names the component whose actions this behaviour takes, and `Only(p)` leaves the
variables of the others alone. The state space is the sum, not the product, of the components'. The
component whose theorems are proved is the one extended, the others are instantiated with their bounds
(the `INSTANCE ... WITH` lines). Components that interact through shared state are composed in one
module instead: `ConnectionSwitch` (desktop and network agent), `NetworkMonitor` (client and host),
`BackupEvidence` (queue, engine, database, backup), `StreamSession` (commands, actor, native library).
A property of such an MC module is the conjunction of the components' properties on one theme; the
definitions are in the components.

### Worlds

What surrounds a program may do more or less: crash it, lose events, answer with an error, overlap two
commands. Most modules have a variable `world`, a set of such behaviours, chosen in `Init` from
`Worlds` and never changed; an action of the surroundings has the conjunct `May("...")`. All of them
can happen to the program. They are separate for two reasons: a few at a time keep the state space
finite in practice, and some of them refute some properties, which then name the worlds they are
claimed for (`Sheltered` in `PaidCreation`, for instance). `LifecycleAgent` (`DbMayFail`, `MaxFaults`,
`ProviderAction`) and `RestoreTransaction` (`Faults`, `Overlap`, `Modes`, `SteamManifests`) use
constants for the same purpose.

## Runs

| Run | Shows | Distinct states |
|---|---|---|
| `capture` | the queue never merges a write into another event, evicts silently or gives up a process event while it holds a file event; a clean application's files are in its latest bundle; journal rows are dropped, and seals name a bundle, only when it has the file as it is | 0.8 million |
| `catalog` | every marked bundle can be read back; a completed backup is in the catalog; nothing visible disappears | 1.5 million |
| `agents` | no shutdown of anything unverified, no reload takes the run away, runs only advance, and the agent implements `SafeShutdown`; a committed bundle holds every changed file; a transfer reported done is done | 0.6 million |
| `restore` | all of a restore or nothing of it, with a crash between any two durable effects, in roll-back and recovery too; partials are journaled; chunks are held while needed; contradictory bundles are refused before the database changes | 0.8 million |
| `stores` | unfinished operations have a task, success is final; an application is started at most once; acknowledged saves, paired identities and the repository key survive; revisions the server has are not rewritten; a packet size counts as good only where it was used | 0.9 million |
| `desktop` | an unresolved paid request keeps its durable intent and no second one is sent; a hand-over is complete; pairings and host reports are about the right machine; every tick is billed once; commands that report success did their work; the user's choices on feedback and shutdown are respected | 1.0 million |
| `connection` | one tunnel owner, running what is on disk; both sides of a switched transport agree; a ready agent is the shipped one; probes are counted once; microphone session, sidecar and receiver agree; the ring repeats and reorders nothing; a stream whose close has run to its end stays closed | 1.4 million |
| `agents_progress` | changes end up in a bundle, shutdown runs finish, restores and recoveries end, operations, backups and transfers end | 0.2 million |
| `desktop_progress` | a spent budget stops the rental; commands end and take their marks with them; starts queued behind a run are taken up; lost monitors register again; the microphone of a closed stream stops; an erasure reaches the server | 0.15 million |
| `pipeline_cancel`, `state_race`, `lifecycle_resume` | violations, see below | |

**Bounds.** They are the smallest in which the interesting cases happen. Two files, applications,
operations, requests or machines are the least that can interfere. A file has two changes for a stale
and a fresh copy, and a third of the same size as the second, which a size comparison misses. The
queue of three, the packet cache of one entry, the monitor's two sessions and the ring of two slots
are over-filled, so that evictions and overwrites occur. Two packs allow a crash between them, three
bundles give a parent, a child and an inheritor of both; two attempts give a retry and a last one; five
commands of the guided setup are what one pairing and its repetition under another instance take. The
RTP sequence space is 16 with offsets next to its wrap; the window, lateness and gaps keep their order
of size. The budget month has two ticks and three are counted, so a month ends. Timeouts are one or two
ticks: only "elapsed or not" matters. A backup reads at most two of three journal rows (`MaxRows`, for
the code's 10,000), so that some stay for the next one. A packet may be four behind
the newest (`MaxLate`) with a window of fewer, and two streams (`MaxStreams`) can replace each other.

All runs are bounded in the number of commands, crashes and faults, so each "whatever happens" above
means: within these bounds, and in the worlds the property is claimed for (see the table below).

`VIEW NoHistory` (`agents`) leaves out history that no property of that run reads. Symmetry is used
only where the permuted values occur in no action by name, and in no run with a liveness property.
Deadlock is checked in `capture` and `restore`, where there is always a next step; the other systems
may come to rest (a destroyed instance, used-up bundles, no command left to give).

## Where code and documents disagree

Each violation run has one property, stated from a document or comment of the repository, and a
counterexample; `PROJECT.json` ("findings") has the quotations.

- `lifecycle_resume`: `tick` persists TIMEOUT_REACHED and SELECTING_APPLICATIONS before the run row
  exists. A crash in between leaves an active state without a run: every later tick fails, and neither
  start-up nor saved settings touch an active state.
- `pipeline_cancel`: when a cancellation comes with the job channel full, the workers leave, the
  feeder's send neither fails nor finds room, and the backup never ends, with the transfer gate held.
- `state_race`: a save of the state reads the sections it does not know, waits and writes them back; a
  pairing that the Moonlight repository stored in between is gone.

The following disagreements were found in the same way while the properties were being stated. The
properties are stated so that they do not claim these cases; there is no run for them.

| Where | What happens |
|---|---|
| `app_context.rs:175` (`IntentKept`, world `reload`) | a reload of the state that reads before and installs after an intent was saved removes it from file and memory; a lost answer then leads to a second paid request |
| `connection_manager.rs:951` | an error of the commit call, a lost answer included, rolls the tunnel back; the agent keeps the committed profile |
| `connection_manager.rs:1672` | a replaced relay allocation is recorded but not applied to the tunnel, and counts as healthy |
| `orchestration.rs:288` | a stop requested during the pre-flight check of a start is forgotten |
| `commands/mod.rs:4401` | a close stops the runtime before it clears the active instance; the watcher may start the closed stream again |
| `mic-sidecar/src/ring.rs:101` (`RingSound`, world `weak`) | relaxed accesses: the consumer may pass both sequence checks with the value of a later sample |
| `wireguard.rs:869` (`TunnelSafe`, worlds `late`, `appDies`) | a stop finds helpers, not elevation prompts: a prompt answered after the desktop stopped waiting, and after a stop, brings the tunnel up |
| `network-agent/scripts/install-remote.sh:40` (`AgentsAgree`, worlds `packaged` with `command`) | the installer takes binaries that the state agent's package left behind; after an update of the desktop these may be the older build, recorded under the new revision |
| `turn_manager.rs:274` (`SwitchAgrees`, world `late` with `lost` or `link`) | a commit that arrives after its call failed still takes effect when the abort was lost or failed as well; the desktop's record keeps the older profile |
| `orchestration.rs:280` (`CommandsEnd`) | a start queued during another start's health check stays queued when that check fails: the guard is given back, nothing takes the request |
| `commands/mod.rs:687` (`CommandsEnd`, `MicAgrees`) | a stream that replaces another one, or fails, does not stop the microphone of the stream before it |
| `mic_passthrough.rs:930` (`MicAgrees`, world `recreate`) | recreating the device of one session may reinstall the receiver under another one that is live |
| `noland_moonlight.c:242` (`StreamSound`, world `overtaken`) | an event takes the generation of the moment it is queued: a late report of an ended session counts as one of its successor and ends it |
| `feedback/mod.rs:2029` (`ChoicesRespected`) | an enrolment left unfinished for a day can no longer be recovered; if the server had accepted it, nothing on the desktop can erase that identity |
| `adaptive_packet_size.rs:771` | after a downshift the next start may probe the size just found bad |
| `agent_runtime.rs:326` | the old agent answers while the new one is being installed; the operation is handed to it and interrupted |
| `commands/shared_storage.rs:42` | the provider name of static credentials is quoted twice, so every provider is refused |
| `noland-restore`, `prune_restore_pack_cache` | a kept workspace makes every later restore fail after its download |
| `commands/launch_library.rs` | a retry after a failed second restore finds the application installed and starts it with older state |

## What happens outside the worlds of a property

| Property | Left out | What happens there |
|---|---|---|
| `CleanMeansCaptured`, `CaptureKept` | `overlap` | a write during a backup coalesces into a row the backup then marks processed; an identity read after the copy is trusted |
| | `lanes` | two lanes back up one application from one parent; the later commit misses the other's files |
| | `reorder` | facts still unresolved at the end of a batch go with the batch's engine |
| | `exit` or `seal` with losses | a loss handled after the exit marks nobody; a seal's reconciliation clears the request its own backup needed |
| | `backlog` with seals | a seal does not drain the queue |
| `CompletedVisible`, `VisibleKept` | `lanes`, `fetch` | two lanes publish successors of one catalog, or a failed read republishes an older one |
| `CompletedVisible` | `latest`, `unseen` | a failed write of LATEST is ignored; a retry reports a bundle no catalog lists |
| `CommittedReadable` | two storages | the cached parent, and the packs inherited from it, are in the other storage |
| `RestoreSafe` | appmanifest, clashes | the Steam appmanifest is deleted before the transaction; an entry of the critical tier that is a tombstone of the second passes both preflights |
| `UnfinishedIsManaged`, `CompletedStays` | `race` | overlapping retries put a completed row back to QUEUED |
| `UnfinishedIsManaged` | `dbfail` | a failed row write is logged and the row stays unfinished until the next start |
| `FullTimeoutGranted` | during a reload, or after one the database failed | a tick between the configuration swap and the re-arming counts idle time from before enabling |
| `IntentKept`, `NoSecondPaidRequest` | `ackEarly`, `ack` with `late` or `lag` | an acknowledgement made before the provider's answer is settled and listed clears the intent of a rental that appears later |
| `PairedHostMatches` (`Guided`) | `elsewhere` | a launch from outside the guided page, with the tunnel of another instance up, pairs the host with that machine: all machines have one tunnel address |
| | `faults`, `restart` | a synchronisation that fails or dies between the selection of an instance and the new session leaves the old session, whose checks the next hand-over records for the selected instance |
| | `overlap` | the session moves to another instance between a verification and its recording. What is recorded is still what was pinned: `RecordedIsPinned` holds here too |
| `ReportedServed` | `rough` | a script outlives its timed-out operation and changes the host after the answer, or Xorg crashes alone, and the one-shot unit that sets the mode does not run again |
| `OkMeansDone` (`NeverSilentlyArmed`) | `late` | a script that outlives its call arms a machine after the roll-back disabled it, and the command says that all are disabled |
| | `overlap` | two settings commands alternate machine by machine; the machines run the settings of one, the file has those of the other |
| | `crash` | a desktop that dies before its roll-back leaves a machine armed while the saved settings still say disabled |
| `HandoffComplete` (its endpoint) | `sync` | a concurrent reconnection rewrites the local configuration |
| `SwitchAgrees` (`CompletedAgrees`) | `overlap` | a switch begins while a reconciliation waits for an answer; the reconciliation then records the profile it had read as the completed one |
| | `helper` | the helper or the configuration file refuses the change or its undoing; also outside `FailedIsUndone` |
| | `late` with `lost` or `link` | the late commit named in the table above |
| `SwitchAgrees` (`FailedIsUndone`, the agent's side) | all worlds that can lose or delay the abort | the agent keeps the transaction until its lease ends; the tunnel's side is claimed there |
| `TunnelSafe` (`StoppedStaysDown`) | `late`, `appDies` | the prompt named above |
| | the same, on other systems than Linux | there is no clean-up by force, so an owner that has published no status survives the stop |
| `TunnelSafe` (`VerifiedRuns`) | `persist`, `cross` | a control change is applied but its file cannot be written, or belongs to the other configuration; the next verification trusts the fingerprint |
| `AgentsAgree` (`ReadyMeansCurrent`) | `killed`, `timeout` | a script killed half-way leaves new and old files side by side, one that outlives its call installs after the answer |
| | `crash` | the process that was probed may have ended since: nothing runs, but nothing else does either |
| `MicAgrees` (`SidecarHasSession`) | `double`, `preempt` | of two enabling commands one's session is recorded while the receiver listens for the other's; a stop inside the supervisor's last step leaves a sidecar without a session |
| | `recreate`, `late` (the host's part) | the reinstallation named above; a start script that outlives its call sets the receiver back to its own session |
| `MicAgrees` (`AcceptedOnce`, `LossIsReal`) | `outage`, copies older than the window | a gap of half the sequence space looks like a step back; numbers that left the window are forgotten |
| `StreamSound` (`ClosedStaysClosed`) | `impatient` | a close during the start command finds no stream to stop, and the start goes on |
| | `again` | the watcher of a closed stream takes a new start's active instance for its own and starts the closed stream in its place |
| | a watcher past its last check | it restarts the stream whatever the close does; such a close does not count as run to its end |
| `StreamSound` (`StreamKeepsNetwork`) | `second`, `again` | the clean-up of a refused second start, or the watcher of a replaced stream, takes the network flag from the stream that is up |
| `StreamSound` (`LiveSessionKept`) | `overtaken` | the late report named above |
| `RingSound` | `weak` | only the order of the samples is claimed |
| `SecretsKept` (`RestartRestoresSaved`) | `full`, `unverified`, `reload`, `halfway`, `tunnelfile` | the vault or the disk refuses or half-finishes a write, a reload overlaps a save, or a tunnel file cannot be read; a start then deletes the state or finds an older secret beside a newer one |
| `KeyStable`, `TokenNotLost` | `legacies`; `disk`, `restart` | several keys of earlier versions, of which one is adopted; a renewed token that could not be saved is gone |
| `BudgetStops` | all but the empty world | failing saves and requests, and another account's key, may put a stop off for ever |
| `CommandsEnd` | `disk`; `refused`, `expired`; `manual`, `preempt`, `disk` of the microphone | a mark whose save failed stays; an erasure the server refuses needs the user; a microphone the user switched on outlives the stream |
| `JobsEnd` | many files with a cancellation or a fault | the finding `pipeline_cancel` |
| `EventuallyCaptured` | `overlap` | as for `CleanMeansCaptured`: a change made during a backup may be forgotten for good |

## Fairness

- `LifecycleAgent`: the evaluation loop takes its next step (a tokio interval ticks for ever, and each
  call inside a tick has an outcome), a started handler runs to its end, and the service is started
  again (`Restart=always`). Nothing is assumed about users, the provider or the storage.
- `BackupEvidence`: the event loop and the operations go on, and somebody keeps asking for backups.
  That storage calls return is an assumption: the agent has no time-out for them.
- `BackupPipeline`, `PackTransfer`, `RestoreTransaction`: threads and futures that can move do.
  `RestoreEnds` says that a restore ends unless the agent crashes again and again.
- `StateOperations`: handlers and callbacks run, an aborted task is dropped, and tokio's mutex is fair,
  hence strong fairness of `Acquire`. That storage calls return is a hypothesis inside `JobsEnd`.
- Desktop: a started command, the lanes of a run, the tracker loop, the feedback loop, the client's and
  the host's side of the monitor and the microphone's supervisor go on. Users and providers owe
  nothing; faults are bounded by the constants (`MaxTroubles`, `MaxFaults`, ...).

## Proofs

The theorems hold for every value of the constants, within the named assumptions of the modules
(`ConstantsAssumption`, `RingAssumption` and the like): bounds are natural numbers, and the model values
(`NoRun`, `NoOp`, `Nil`) are outside the sets they extend. `PROJECT.json` ("theorems") lists the results.

**Lifecycle** (`LifecycleProofs`). `VerifiedBeforeShutdown` is not inductive: what a tick in progress
knows of the database was read some awaits ago, and reloads write in between. `IInv` adds what the
tick's locals say about the rows at each program counter (`EngineInv`), which runs exist and which are
finished (`RunInv`), that reloads keep the active run (`ReloadKeepsRun`), and that state and run agree
(`StateMatchesRun`). The step lemma has one case per action, grouped by what the actions touch. On top
of it, the last four of these in `LifecyclePromises`:

- `RunsAdvance` and `FinishedRunsUntouched`: two action properties, from what each transaction of
  `db.rs` does to a row (`RowUpdatesKeep`, `RowAdvances`).
- `RefinesSafeShutdown`: the agent implements `SafeShutdown`. The mapping is that of the model
  (`Phase`, `Selected`, `Verified`, `instance = "down"`). Besides `IInv` it needs `DownInv`: a dead
  process is in no tick, and a tick completes its run only with the machine down. There is one mapping
  lemma per abstract action (`SelectMaps`, `VerifyMaps`, `CloseMaps`, `PowerMaps`, `FailMaps`,
  `FinishMaps`, `ResetMaps`), and all other steps leave the mapped variables alone (`MapKept`).
- `VerifiedApplicationsHaveBaselines`: an application recorded as VERIFIED has a complete backup in
  storage. `BaselineInv` follows the fact from the probe that chooses a personal-only backup, over the
  running operation and its row, to the verification.
- `StartsAreCounted`: operations started are bounded by the persisted attempts and the faults.
  `LaunchInv` adds that a run which does not exist has started nothing; each step is shown to keep the
  balance of started operations, attempts, faults and the operation about to be marked.
- `TimeoutIsFull`: `GraceInv` relates the idle clock that the agent reads to the time since it was
  started or enabled, except while a reload is between its swap and its re-arming.

**Queue** (`QueueProofs`). Types, `LastWriteSound` and `LossReported` are inductive together:
coalescing is sound only if the remembered position is that of a queued write of the path, which each
eviction and drain must maintain. `ProcessStreamIsKept` is about what a push may evict. The lemmas are
about the operators of `QueueOps`, so they also speak of the queue inside `BackupEvidence`.

**Catalog** (`CatalogProofs`), under `OneStore`. `CommittedReadable` needs that an index names only the
bundle itself or whole bundles, that remembered packs are whole, that marked bundles are whole and
unused ones empty (`StorageInv`), how far each lane has come (`LaneSound`), and that no two lanes have
one bundle (`LanesApart`). No condition on worlds: it holds with everything that may fail.

**Operations** (`OperationsProofs`). Without `race`: rows and tasks agree (`RowAndTask`), a handler
between two awaits still knows what it read (`HandlersInformed`), and no two handlers have one
operation (`HandlersApart`). `GatesFollowWorkers` has its own invariant and holds in all worlds.

**Paid request** (`PaidProofs`). `Typed` says what a run has in hand at each step. `Safe` says that the
intents on disk, in memory and in the snapshot of a reload under way agree with the provider (`Sound`),
how the intent a run carries over its awaits relates to the one in memory (`RunInv`), and what an
acknowledgement may be about (`AckInv`). Both recovery and acknowledgement compare the key in one step
and save in a later one (`RecoverCheck` and `RecoverAdopt`, `AckCheckKey` and `AckClear`), and the key
may change in between: the invariants say that from the comparison on a run holds the request it
found, and that after its listing an acknowledgement is about a resolved one, never which key is set. `IInv` is `Typed` and, in sheltered worlds, `Safe`.

**Ring** (`RingProofs`). `PositionInv` orders the two threads' positions, `ProducerInv` bounds the
buffer being written, and `SlotInv`, claimed where accesses take effect in program order, relates every
slot's sequence number to its value and to the frontier of what was written.

**Only model-checked**, and why:

- all liveness properties: fairness and ENABLED are out of the prover's reach;
- `CompletedVisible` and `VisibleKept` of `CatalogCommit`, and everything in `BackupEvidence`,
  `BackupPipeline`, `PackTransfer`, `RestoreTransaction` and the desktop and connection modules other
  than `PaidCreation` and `AudioRing`: no inductive invariant has been written down for them yet;
- what folds over sequences and sets compute in these modules (pack splitting, ledger sums, windows
  of samples): it would take induction over data.

## Not modelled

Byte formats, cryptography and chunk boundaries; the rules that say which paths are user state; the
kernel programs; transports and command lines; decoding, rendering and the audio graphs; views. They
hold no state over time that these methods reach, or are I/O. The rows that `run_seal` and a backup of
all applications create for their inner operations are left out of `StateOperations`, and
`CatalogCommit` leaves out the fields that describe divergent heads.
