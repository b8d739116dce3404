----------------------------- MODULE MCAgents -------------------------------
(***************************************************************************)
(* The agents on the machine for TLC: the lifecycle agent                  *)
(* (LifecycleAgent), and of the state agent the capture of changes         *)
(* (BackupEvidence), its operations (StateOperations), the backup pipeline *)
(* (BackupPipeline), the transfers (PackTransfer) and the restore          *)
(* (RestoreTransaction).  Each behaviour is one of one component.          *)
(***************************************************************************)
EXTENDS LifecycleAgent, TLC

CONSTANTS
    Parts,            \* the components to check
    p1, p2, o1, o2, c1, w1, w2, NoOperation,
        PipelineWorlds, TransferWorlds

VARIABLES
    focus, \* the component of this behaviour
    world, fs, clock, running, late, queue, db, head, bk, blind, kind, row,
    managed, task, gate, requests, retries, crashes, live, dirs, part, wdir,
    jstate, jrn, art, assoc, pc, att, complete, files, critical, tombs, round,
    todo, existed, cur, mem, published, staged, refs, evict, rb, err, boot,
    booting, pre, exact, stage, pool, gathered, cancelled, remote, depot,
    shelf, pins, got, ledger, flights, throttle, cool, haul

\* Two writes, which leave files of the same size.
SizeOf == <<1, 1>> @@ (0 :> 0)

\* One restore of two files that share a chunk, p1 the manifest of a game.
ChunksOf == [p \in {"p1", "p2"} |-> IF p = "p1" THEN {"c1"} ELSE {"c1", "c2"}]

\* Six files, or eight in the world "many": the channel of four jobs and the
\* hands of two workers hold six, with eight the feeder may have to wait.  Files
\* 2 and 3 share a chunk, file 4 is inherited, one chunk of file 5 is remote.
Files == <<1, 5, 2, 6, 3, 4, 7, 8>>
ByHash == [i \in 1 .. 10 |-> 10 + i]
FileChunks ==
    <<(<<11>>), <<12>>, <<12>>, <<13>>, <<14, 15>>, <<16, 17>>, <<18>>,
      <<19, 20>>>>
PlainSize == [c \in 11 .. 20 |-> IF c \in {12, 16} THEN 3 ELSE 2]
StoredSize == [c \in 11 .. 20 |-> IF c \in {12, 17} THEN 1 ELSE PlainSize[c]]
BackupWorlds ==
    {{"many"}, {"cancel"}, {"unreadable"}, {"damaged", "cancel"}, {"one core"},
     {"one core", "cancel", "unreadable"}, {"full disk", "cancel"}}
CancelWorlds == {{"many", "cancel"}}

\* Three packs, five chunks of three tiers: pack 1 is needed by two targets, so
\* the second finds it in the cache.
HomeOf == [a |-> 1, b |-> 1, c |-> 2, d |-> 3, e |-> 3]
TierOf == [a |-> 1, b |-> 3, c |-> 1, d |-> 2, e |-> 3]
CarryWorlds ==
    {{"flaky"}, {"limited", "cancel"}, {"flaky", "down"}, {"rot"},
     {"rot", "flaky", "limited"}, {"damaged", "rot"}, {"crash"},
     {"cancel", "rot"}, {"upload", "flaky", "limited"},
     {"upload", "leftover", "cancel"}, {"upload", "conflict"},
     {"upload", "flaky", "down", "leftover"}}

E == INSTANCE BackupEvidence WITH
    Paths <- {p1, p2}, QueueCap <- 2, MaxChanges <- 2, MaxRows <- 1,
    Worlds <- {{"ring", "unlink", "rename", "parent"}}
O == INSTANCE StateOperations WITH
    Ops <- {o1, o2}, Kinds <- {"backup", "seal"}, Handlers <- {c1},
    MaxRetries <- 1, MaxCrashes <- 1, Worlds <- {{}}, NoOp <- NoOperation,
    running <- managed, rpc <- requests
R == INSTANCE RestoreTransaction WITH
    Attempts <- {"a1"}, fs <- live, Paths <- {"p1", "p2"}, Dirs <- {},
    Above <- [p \in {"p1", "p2"} |-> {}], Chunks <- {"c1", "c2"},
    ChunksOf <- ChunksOf, SteamManifests <- {"p1"}, Modes <- {TRUE},
    Overlap <- FALSE, Faults <- {}
B == INSTANCE BackupPipeline WITH
    ChunksOf <- FileChunks, SmallFiles <- {1, 2, 3, 4}, Inherited <- {13},
    Remote <- {15}, PACK_HEADER <- 1, RECORD_OVERHEAD <- 1,
    SmallLimits <- [target |-> 4, max |-> 8],
    RegularLimits <- [target |-> 5, max |-> 12], HashWorkers <- {w1, w2},
    PackWorkers <- {w1, w2}, Damaged <- {16}, Unreadable <- {2},
    Worlds <- PipelineWorlds
X == INSTANCE PackTransfer WITH
    Packs <- {1, 2, 3}, Chunks <- {"a", "b", "c", "d", "e"}, LastTarget <- 3,
    Slots <- 2, max_attempts <- 3, Backoff <- <<1, 2>>, Cooldown <- 2,
    BulkSize <- 2, Uploads <- {1, 2, 3}, Bulk <- 0, MaxRuns <- 2,
    Worlds <- TransferWorlds

evidenceState == <<fs, clock, running, late, queue, db, head, bk, blind>>
EvidenceOff ==
    /\ fs = "-" /\ clock = "-" /\ running = "-" /\ late = "-" /\ queue = "-"
    /\ db = "-" /\ head = "-" /\ bk = "-" /\ blind = "-"
operationsState == <<kind, row, managed, task, gate, requests, retries,
    crashes>>
OperationsOff ==
    /\ kind = "-" /\ row = "-" /\ managed = "-" /\ task = "-" /\ gate = "-"
    /\ requests = "-" /\ retries = "-" /\ crashes = "-"
restoreState == <<live, dirs, part, wdir, jstate, jrn, art, assoc, pc, att,
    complete, files, critical, tombs, round, todo, existed, cur, mem,
    published, staged, refs, evict, rb, err, boot, booting, pre, exact>>
RestoreOff ==
    /\ live = "-" /\ dirs = "-" /\ part = "-" /\ wdir = "-" /\ jstate = "-"
    /\ jrn = "-" /\ art = "-" /\ assoc = "-" /\ pc = "-" /\ att = "-"
    /\ complete = "-" /\ files = "-" /\ critical = "-" /\ tombs = "-"
    /\ round = "-" /\ todo = "-" /\ existed = "-" /\ cur = "-" /\ mem = "-"
    /\ published = "-" /\ staged = "-" /\ refs = "-" /\ evict = "-"
    /\ rb = "-" /\ err = "-" /\ boot = "-" /\ booting = "-" /\ pre = "-"
    /\ exact = "-"
pipelineState == <<stage, pool, gathered, cancelled, remote>>
PipelineOff ==
    /\ stage = "-" /\ pool = "-" /\ gathered = "-" /\ cancelled = "-"
    /\ remote = "-"
transferState == <<depot, shelf, pins, got, ledger, flights, throttle, cool,
    haul>>
TransferOff ==
    /\ depot = "-" /\ shelf = "-" /\ pins = "-" /\ got = "-" /\ ledger = "-"
    /\ flights = "-" /\ throttle = "-" /\ cool = "-" /\ haul = "-"

\* One component is checked at a time; the others do not move.
PartInit ==
    /\ focus \in Parts
    /\ Init
    /\ IF focus = "evidence" THEN E!Init ELSE EvidenceOff
    /\ IF focus = "operations" THEN O!Init ELSE OperationsOff
    /\ IF focus = "restore" THEN R!Init ELSE RestoreOff
    /\ IF focus = "pipeline" THEN B!Init ELSE PipelineOff
    /\ IF focus = "transfer" THEN X!Init ELSE TransferOff
    /\ focus \in {"lifecycle", "restore"} => world = {}

Only(p) ==
    /\ focus = p /\ UNCHANGED <<focus, world>>
    /\ p # "lifecycle" => UNCHANGED vars
    /\ p # "evidence" => UNCHANGED evidenceState
    /\ p # "operations" => UNCHANGED operationsState
    /\ p # "restore" => UNCHANGED restoreState
    /\ p # "pipeline" => UNCHANGED pipelineState
    /\ p # "transfer" => UNCHANGED transferState

PartNext ==
    \/ Only("lifecycle") /\ Next
    \/ Only("evidence") /\ E!Next
    \/ Only("operations") /\ O!Next
    \/ Only("restore") /\ R!Next
    \/ Only("pipeline") /\ B!Next
    \/ Only("transfer") /\ X!Next

partVars ==
    <<focus, vars, evidenceState, operationsState, restoreState, pipelineState,
      transferState, world>>

PartSpec == PartInit /\ [][PartNext]_partVars

PartFairSpec ==
    /\ PartSpec
    /\ WF_vars(focus = "lifecycle" /\ EngineStep)
    /\ \A h \in Handlers : WF_vars(focus = "lifecycle" /\ HandlerStep(h))
    /\ WF_vars(focus = "lifecycle" /\ Start)
    /\ WF_evidenceState(focus = "evidence" /\ E!ProcessEvents)
    /\ WF_evidenceState(focus = "evidence" /\ E!RecoverProcesses)
    /\ WF_evidenceState(focus = "evidence" /\ \E m \in E!Modes : E!StartBackup(m))
    /\ \A l \in E!Lanes : WF_evidenceState(focus = "evidence" /\ E!BackupStep(l))
    /\ WF_operationsState(focus = "operations" /\ O!Handle(c1))
    /\ \A o \in {o1, o2} :
         /\ SF_operationsState(focus = "operations" /\ O!Acquire(o))
         /\ WF_operationsState(focus = "operations" /\ O!CancelWaiting(o))
         /\ WF_operationsState(focus = "operations" /\ O!DropWorker(o, "dropped"))
         /\ WF_operationsState(focus = "operations" /\ O!Return(o))
         /\ WF_operationsState(focus = "operations" /\ O!Callback(o))
         /\ WF_operationsState(focus = "operations" /\ O!DropGuard(o))
    /\ WF_restoreState(focus = "restore" /\ R!Working)
    /\ WF_pipelineState(focus = "pipeline" /\ B!Step)
    /\ WF_transferState(focus = "transfer" /\ X!Step)

-----------------------------------------------------------------------------
\* The applications and the runs are interchangeable in every safety property.
Symmetry == Permutations(Apps) \cup Permutations(Runs)

\* Of the history variables, the steps only ask which modes were launched; a run with
\* this view checks no property of the rest.
Launchable == [a \in Apps |-> {m \in Modes : \E r \in Runs : launches[r][a][m] > 0}]
NoHistory ==
    <<focus, dbVars, memVars, eng, rpcVars, envVars, faults, Launchable,
      pipelineState, transferState, world>>

(* A committed bundle holds every changed file (BackupPipeline), and what  *)
(* a transfer reports as done is there (PackTransfer).                     *)
CommittedIsWhole ==
    /\ focus = "pipeline" => B!CommittedIsWhole
    /\ focus = "transfer" => X!DoneMeansThere

(* Once the application stops changing its files, and as long as backups   *)
(* are asked for, its files are all in the latest bundle for good          *)
(* (BackupEvidence).                                                       *)
EventuallyCaptured ==
    <>[](focus = "evidence" => \A p \in {p1, p2} : head.files[p] = fs[p])

(* Unless the agent keeps crashing, every restore and every start-up       *)
(* recovery ends (RestoreTransaction).                                     *)
RestoreEnds ==
    (<>[][focus = "restore" => ~R!Crash]_restoreState)
        => []<>(focus = "restore" => pc = "idle")

(* If the storage answers, every operation that is queued ends, behind     *)
(* whatever is ahead of it on its lane (StateOperations); a backup ends,   *)
(* whatever fails and whenever it is cancelled, while it has at most three *)
(* files for every hashing thread (BackupPipeline); and every restore and  *)
(* every upload of packs ends (PackTransfer).                              *)
Underway ==
    \/ focus = "operations" /\ row[o1] = "QUEUED"
    \/ focus = "pipeline" /\ B!RoomForAll
    \/ focus = "transfer" /\ X!Running
Ended ==
    /\ focus = "operations" => O!is_terminal_state(row[o1])
    /\ focus = "pipeline" => stage \in B!Ends
    /\ focus = "transfer" => ~X!Running
JobsEnd ==
    (\A o \in {o1, o2} :
        WF_operationsState(focus = "operations" /\ (O!LastRow(o) \/ O!Fail(o))))
    => Underway ~> Ended

(* A backup whose cancellation was requested ends (backup.rs).             *)
CancelledBackupEnds ==
    (focus = "pipeline" /\ cancelled) ~> (focus = "pipeline" => stage \in B!Ends)

=============================================================================
