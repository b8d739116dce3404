----------------------------- MODULE MCDesktop ------------------------------
(***************************************************************************)
(* The desktop's commands, for TLC: the paid request (PaidCreation), the   *)
(* provisioning pipeline (Provisioning), the guided setup that follows it  *)
(* (SetupFlow), the streaming host it installs (HostInstall), the spend    *)
(* tracker (SpendTracker), the feedback program (FeedbackProgram), the     *)
(* commands handed to the state agent (BackupHandoff) and the roll-out of  *)
(* the automatic shutdown (ShutdownRollout); for liveness also the network *)
(* monitor and the microphone.  Each behaviour is one of one component.    *)
(***************************************************************************)
EXTENDS PaidCreation, TLC

CONSTANTS
    Parts,     \* the components to check
    Thorough,  \* every kind of trouble, or the few that delay an end
    k1         \* one of the keys

VARIABLES
    focus, \* the component of this behaviour
    scene, guard, pending, cancel, flow, disp, net, tail, mutation, sync,
    active, setup, rec, file, vm, endpoint, asked, count, selected, guide,
    server, link, mutating, job, host, accepts, session, issued, machine,
    client, script, claim, ops, outages, clock, real, key, settings, cursors,
    ledger, alerts, tracker, stops, cooling, action, billed, stoppedIn,
    changes, program, vault, identities, service, spool, boot, op, call,
    wanted, choices, mishaps, jobs, marked, slot, cancels, agent, rows, halted,
    troubles, fleet, members, account, saved, desk, turn, late, told, given,
    snags, monitor, command, airborne, uplink, ghost, downlink, registry,
    latest, observed, failSafe, pathway, breaks, tasks, started, sessions,
    handles, alive, receiver, straggler, prefers, streaming, ended, pass,
    deaths

Symmetry == Permutations(Requests) \cup Permutations(Keys)

ProvisioningWorlds ==
    IF Thorough
    THEN {{"fails"}, {"drift", "moves", "crash"}, {"stop", "mismatch"}, {"sync"},
          {"unhealthy"}}
    ELSE {{"fails"}, {"unhealthy"}}

SetupWorlds ==
    {{}, {"slow"}, {"drop", "keyLost"}, {"faults"}, {"restart"}, {"overlap", "keyLost"},
     {"elsewhere"}}

HostWorlds == {{"mismatch", "connect"}, {"crash", "script"}, {"rough", "script"}}

Budget(b, auto) == [budget |-> b, warn |-> 50, auto |-> auto]
SpendWorlds == IF Thorough THEN {{}, {"saveFails", "stopFails"}, {"switch"}} ELSE {{}}

FeedbackWorlds ==
    IF Thorough
    THEN {{"scope", "crash", "lost", "storage", "paused"},
          {"erase", "crash", "lost", "storage"},
          {"withdraw", "erase", "crash", "lookup", "revoked"},
          {"withdraw", "erase", "refused", "expired", "storage"}}
    ELSE {{"erase", "crash", "lost", "storage"}}

Wish(k, s) == [kind |-> k, apps |-> s]
HandoffWishes ==
    {Wish("backup", {1, 2}), Wish("backup", {1}), Wish("restore", {1}), Wish("seal", {1})}
HandoffWorlds ==
    IF Thorough
    THEN {{"backup", "many"}, {"backup", "disk"}, {"backup", "lost"}, {"restore", "crash"},
          {"seal", "stale"}, {"seal", "restore", "cancel"}}
    ELSE {{"backup", "lost"}, {"restore", "crash"}}

RolloutWorlds ==
    IF Thorough
    THEN {{"snag"}, {"snag", "disk"}, {"snag", "late"}, {"overlap"}, {"crash", "snag"},
          {"snag", "poll"}, {"snag", "provision"}, {"vanish", "snag"}, {"account"}}
    ELSE {{"overlap"}, {"snag"}, {"provision"}}

MonitorWorlds == {{"break"}, {"consent", "evict"}}

P == INSTANCE Provisioning WITH
    Instances <- {"i1", "i2"}, None <- "none", Offer <- "offer",
    MaxStarts <- 2, MaxMoves <- 1, MaxCrashes <- 1,
    Worlds <- ProvisioningWorlds, run <- flow, world <- scene
G == INSTANCE SetupFlow WITH
    Instances <- {"i1", "i2"}, Slots <- {"s1", "s2"}, MaxJobs <- 5,
    MaxOverlap <- 3, Worlds <- SetupWorlds, focus <- selected, setup <- guide,
    world <- scene
H == INSTANCE HostInstall WITH
    Modes <- {1, 2}, Passwords <- {1, 2}, MaxOps <- 3, MaxCrashes <- 1,
    Worlds <- HostWorlds, host <- machine, crashes <- outages, world <- scene
S == INSTANCE SpendTracker WITH
    Instances <- {"i1"}, Keys <- {1, 2}, Home <- 1,
    Settings <- {Budget(1, TRUE), Budget(1, FALSE)}, RunRate <- 1,
    StoreRate <- 0, MonthLen <- 2, MaxTime <- 3, MaxChanges <- 1, Slots <- 2,
    Worlds <- SpendWorlds, job <- stops, world <- scene
F == INSTANCE FeedbackProgram WITH
    MaxEnrolments <- 2, MaxChoices <- 3, MaxFaults <- 2,
    Worlds <- FeedbackWorlds, asked <- wanted, world <- scene
B == INSTANCE BackupHandoff WITH
    Tasks <- {1, 2}, Wishes <- HandoffWishes, MaxRows <- 2, MaxBoots <- 1,
    MaxMishaps <- 1, NoRow <- 0, Worlds <- HandoffWorlds, vm <- agent,
    mishaps <- troubles, world <- scene
R == INSTANCE ShutdownRollout WITH
    Machines <- {1, 2}, Limits <- {1, 2}, MaxCommands <- 2, MaxSnags <- 2,
    Worlds <- RolloutWorlds, issued <- given, world <- scene
N == INSTANCE NetworkMonitor WITH
    MaxSessions <- 2, MaxProbes <- 2, PROBE_TIMEOUT <- 1, Stale <- 1,
    CONNECTION_LOST_AFTER <- 2, REARM_AFTER <- 2, BAD_PERSISTENCE <- 2,
    RECOVERY_PERSISTENCE <- 2, MAX_REPORT_SAMPLES <- 2, MaxTroubles <- 1,
    Worlds <- MonitorWorlds, troubles <- breaks, world <- scene
M == INSTANCE MicSession WITH
    Instances <- {"a", "b"}, Commanded <- {"a"}, MaxTasks <- 2, MaxManual <- 2,
    MaxStreams <- 2, MaxDeaths <- 1, Worlds <- {{"stream", "dies"}},
    world <- scene

provisioningState == <<guard, pending, cancel, flow, disp, net, tail, mutation,
    sync, active, setup, rec, file, vm, endpoint, asked, count>>
ProvisioningOff ==
    /\ guard = "-" /\ pending = "-" /\ cancel = "-" /\ flow = "-"
    /\ disp = "-" /\ net = "-" /\ tail = "-" /\ mutation = "-" /\ sync = "-"
    /\ active = "-" /\ setup = "-" /\ rec = "-" /\ file = "-" /\ vm = "-"
    /\ endpoint = "-" /\ asked = "-" /\ count = "-"
setupState == <<selected, guide, server, link, mutating, job, host, accepts,
    session, issued>>
SetupOff ==
    /\ selected = "-" /\ guide = "-" /\ server = "-" /\ link = "-"
    /\ mutating = "-" /\ job = "-" /\ host = "-" /\ accepts = "-"
    /\ session = "-" /\ issued = "-"
hostState == <<machine, client, script, claim, ops, outages>>
HostOff ==
    /\ machine = "-" /\ client = "-" /\ script = "-" /\ claim = "-"
    /\ ops = "-" /\ outages = "-"
spendState == <<clock, real, key, settings, cursors, ledger, alerts, tracker,
    stops, cooling, action, billed, stoppedIn, changes>>
SpendOff ==
    /\ clock = "-" /\ real = "-" /\ key = "-" /\ settings = "-"
    /\ cursors = "-" /\ ledger = "-" /\ alerts = "-" /\ tracker = "-"
    /\ stops = "-" /\ cooling = "-" /\ action = "-" /\ billed = "-"
    /\ stoppedIn = "-" /\ changes = "-"
feedbackState == <<program, vault, identities, service, spool, boot, op, call,
    wanted, choices, mishaps>>
FeedbackOff ==
    /\ program = "-" /\ vault = "-" /\ identities = "-" /\ service = "-"
    /\ spool = "-" /\ boot = "-" /\ op = "-" /\ call = "-" /\ wanted = "-"
    /\ choices = "-" /\ mishaps = "-"
handoffState == <<jobs, marked, slot, cancels, agent, rows, halted, troubles>>
HandoffOff ==
    /\ jobs = "-" /\ marked = "-" /\ slot = "-" /\ cancels = "-"
    /\ agent = "-" /\ rows = "-" /\ halted = "-" /\ troubles = "-"
rolloutState == <<fleet, members, account, saved, desk, turn, late, told,
    given, snags>>
RolloutOff ==
    /\ fleet = "-" /\ members = "-" /\ account = "-" /\ saved = "-"
    /\ desk = "-" /\ turn = "-" /\ late = "-" /\ told = "-" /\ given = "-"
    /\ snags = "-"
monitorState == <<monitor, command, airborne, uplink, ghost, downlink,
    registry, latest, observed, failSafe, pathway, breaks>>
MonitorOff ==
    /\ monitor = "-" /\ command = "-" /\ airborne = "-" /\ uplink = "-"
    /\ ghost = "-" /\ downlink = "-" /\ registry = "-" /\ latest = "-"
    /\ observed = "-" /\ failSafe = "-" /\ pathway = "-" /\ breaks = "-"
micState == <<tasks, started, sessions, handles, alive, receiver, straggler,
    prefers, streaming, ended, pass, deaths>>
MicOff ==
    /\ tasks = "-" /\ started = "-" /\ sessions = "-" /\ handles = "-"
    /\ alive = "-" /\ receiver = "-" /\ straggler = "-" /\ prefers = "-"
    /\ streaming = "-" /\ ended = "-" /\ pass = "-" /\ deaths = "-"

\* One component is checked at a time; the others do not move.
PartInit ==
    /\ focus \in Parts
    /\ Init
    /\ focus # "paid" => world = CHOOSE w \in Worlds : TRUE
    /\ focus # "paid" => disk.servers = {} /\ disk.key = k1
    /\ IF focus = "provisioning" THEN P!Init ELSE ProvisioningOff
    /\ IF focus = "setup" THEN G!Init ELSE SetupOff
    /\ IF focus = "host" THEN H!Init ELSE HostOff
    /\ IF focus = "spend" THEN S!Init ELSE SpendOff
    /\ IF focus = "feedback" THEN F!Init ELSE FeedbackOff
    /\ IF focus = "handoff" THEN B!Init ELSE HandoffOff
    /\ IF focus = "rollout" THEN R!Init ELSE RolloutOff
    /\ IF focus = "monitor" THEN N!Init ELSE MonitorOff
    /\ IF focus = "mic" THEN M!Init ELSE MicOff
    /\ focus = "paid" => scene = {}

Only(p) ==
    /\ focus = p /\ UNCHANGED <<focus, scene>>
    /\ p # "paid" => UNCHANGED vars
    /\ p # "provisioning" => UNCHANGED provisioningState
    /\ p # "setup" => UNCHANGED setupState
    /\ p # "host" => UNCHANGED hostState
    /\ p # "spend" => UNCHANGED spendState
    /\ p # "feedback" => UNCHANGED feedbackState
    /\ p # "handoff" => UNCHANGED handoffState
    /\ p # "rollout" => UNCHANGED rolloutState
    /\ p # "monitor" => UNCHANGED monitorState
    /\ p # "mic" => UNCHANGED micState

PartNext ==
    \/ Only("paid") /\ Next
    \/ Only("provisioning") /\ P!Next
    \/ Only("setup") /\ G!Next
    \/ Only("host") /\ H!Next
    \/ Only("spend") /\ S!Next
    \/ Only("feedback") /\ F!Next
    \/ Only("handoff") /\ B!Next
    \/ Only("rollout") /\ R!Next
    \/ Only("monitor") /\ N!Next
    \/ Only("mic") /\ M!Next

partVars ==
    <<focus, vars, provisioningState, setupState, hostState, spendState,
      feedbackState, handoffState, rolloutState, monitorState, micState,
      scene>>

PartSpec == PartInit /\ [][PartNext]_partVars

PartFairSpec ==
    /\ PartSpec
    /\ WF_provisioningState(focus = "provisioning" /\ P!Control)
    /\ WF_provisioningState(focus = "provisioning" /\ P!RunStep)
    /\ WF_provisioningState(focus = "provisioning" /\ P!DisplayStep)
    /\ WF_provisioningState(focus = "provisioning" /\ P!NetworkStep)
    /\ WF_provisioningState(focus = "provisioning" /\ P!SyncStep)
    /\ WF_spendState(focus = "spend" /\ S!TrackerStep)
    /\ WF_spendState(focus = "spend" /\ S!JobBegins("i1"))
    /\ WF_spendState(focus = "spend" /\ S!ActionStep("i1"))
    /\ WF_spendState(focus = "spend" /\ S!JobReports("i1"))
    /\ WF_spendState(focus = "spend" /\ S!CoolDown("i1"))
    /\ WF_feedbackState(focus = "feedback" /\ F!UserCall)
    /\ WF_feedbackState(focus = "feedback" /\ (F!Enrolling \/ F!DeliverEnrolment))
    /\ WF_feedbackState(focus = "feedback" /\ F!Erasing)
    /\ WF_feedbackState(focus = "feedback" /\ F!Consenting)
    /\ WF_feedbackState(focus = "feedback" /\ (F!CallRecheck \/ F!CallSend \/ F!CallAnswered))
    /\ WF_feedbackState(focus = "feedback" /\ F!BootCommit)
    /\ WF_handoffState(focus = "handoff" /\ B!Goes(1))
    /\ WF_handoffState(focus = "handoff" /\ B!Goes(2))
    /\ WF_handoffState(focus = "handoff" /\ (B!BootstrapStops \/ B!BootstrapStarts \/ B!AgentRestart))
    /\ WF_rolloutState(focus = "rollout" /\ R!Step("save"))
    /\ WF_rolloutState(focus = "rollout" /\ R!Step("other"))
    /\ WF_rolloutState(focus = "rollout" /\ R!Step("poll"))
    /\ WF_rolloutState(focus = "rollout" /\ R!Step("provision"))
    /\ WF_monitorState(focus = "monitor" /\ N!ClientStep)
    /\ WF_monitorState(focus = "monitor" /\ N!HostStep)
    /\ WF_monitorState(focus = "monitor" /\ N!Heartbeat)
    /\ WF_micState(focus = "mic" /\ M!TaskStep(1))
    /\ WF_micState(focus = "mic" /\ M!TaskStep(2))
    /\ WF_micState(focus = "mic" /\ M!PassStep)

-----------------------------------------------------------------------------
(* An instance is handed over complete, no lane outlives its run, and a    *)
(* stop begins no further stage (Provisioning).                            *)
HandoffComplete ==
    [][focus = "provisioning" =>
          P!HandoffComplete /\ P!LanesDrained' /\ P!StopRespected]_partVars

(* A host's pinned certificate is its own machine's, a recorded pairing is *)
(* one the repository holds, and a path is marked ready by a verification  *)
(* of its own tunnel (SetupFlow).                                          *)
PairedHostMatches ==
    [][focus = "setup" => /\ G!PairedHostMatches' /\ G!RecordedIsPinned'
                         /\ G!ReadyMeansVerified]_partVars

(* What an operation that succeeded reported is what the host serves       *)
(* (HostInstall).                                                          *)
ReportedServed == focus = "host" => H!ReportedServed

(* Every tick of a rental is billed once, and a rental the user started    *)
(* again is left alone (SpendTracker).                                     *)
BilledOnce == [][focus = "spend" => S!BilledOnce' /\ S!OverrideRespected]_partVars

(* No identity is out of the user's reach, and contributions leave only    *)
(* under the choice that stands (FeedbackProgram).                         *)
ChoicesRespected ==
    [][focus = "feedback" => F!IdentityRecoverable' /\ F!ContributionsConsented]_partVars

(* A command that reports success did what it was for, on the agent        *)
(* (BackupHandoff) and on every machine (ShutdownRollout).                 *)
OkMeansDone ==
    /\ focus = "handoff" => B!OkMeansDone
    /\ focus = "rollout" => R!NeverSilentlyArmed

(* A rental that runs over a spent budget is stopped (SpendTracker).       *)
BudgetStops == (focus = "spend" /\ S!Due("i1")) ~> (focus = "spend" => ~S!Due("i1"))

(* Every backup, restore and seal command ends and takes its mark with it  *)
(* (BackupHandoff), every settings command ends (ShutdownRollout), a       *)
(* monitor whose session was lost is registered again (NetworkMonitor),    *)
(* the microphone of a closed stream is stopped (MicSession), an erasure   *)
(* the user asked for reaches the server (FeedbackProgram) and a start     *)
(* queued behind a run is taken up when that run ends (Provisioning).      *)
Underway(n) ==
    \/ focus = "handoff" /\ ~B!At(n, "idle")
    \/ focus = "rollout" /\ desk[IF n = 1 THEN "save" ELSE "other"] # R!Idle
    \/ focus = "monitor" /\ N!Watching
    \/ focus = "provisioning" /\ P!QueuedBehindRun
    \/ focus = "feedback" /\ F!ErasureAsked
    \/ focus = "mic" /\ M!StreamOver(IF n = 1 THEN "a" ELSE "b")
Over(n) ==
    /\ focus = "handoff" => B!At(n, "idle")
    /\ focus = "rollout" => desk[IF n = 1 THEN "save" ELSE "other"] = R!Idle
    /\ focus = "monitor" => N!Reregistered
    /\ focus = "provisioning" => pending = "none"
    /\ focus = "feedback" => F!Erased
    /\ focus = "mic" => M!MicOff(IF n = 1 THEN "a" ELSE "b")
CommandsEnd ==
    /\ \A n \in {1, 2} : Underway(n) ~> Over(n)
    /\ (focus = "handoff" /\ B!Marked) ~> (focus = "handoff" => ~marked)

=============================================================================
