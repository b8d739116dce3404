--------------------------- MODULE MCConnection -----------------------------
(***************************************************************************)
(* The connection of the desktop to its machine for TLC: the tunnel and    *)
(* its owner, the switch between direct and relayed transport, the         *)
(* deployment of the network agent, the network monitor, the microphone's  *)
(* commands and sidecar, the stream, and the audio on both ends.  Each     *)
(* behaviour is one of one component.                                      *)
(***************************************************************************)
EXTENDS AudioRing

CONSTANTS
    Parts  \* the components to check

VARIABLES
    focus, \* the component of this behaviour
    scene, helper, lock, record, status, stop, iface, caller, cleaner, file,
    control, version, network, tunnel, conf, switch, recon, evaluated, agent,
    late, keyring, machine, serving, attempt, scripts, mixups, monitor,
    command, airborne, uplink, ghost, downlink, registry, latest, observed,
    failSafe, pathway, troubles, tasks, started, sessions, handles, alive,
    receiver, straggler, prefers, streaming, ended, pass, deaths, daemon,
    signals, plugged, asked, changes, faults, rt, nat, evq, att, watcher,
    closer, desk, changed, closed, settled, offset, newest, tracker, accepted,
    first, controller, sinceRaise

TunnelWorlds ==
    {{"linux", "late", "denied", "killed"}, {"linux", "hang", "appDies"},
     {"late", "killed"}, {"hang", "silent"}, {"linux", "hang", "killed", "device"},
     {"appDies", "device", "denied"},
     {"control", "rewrite"}, {"linux", "control", "persist", "cross"}}

SwitchWorlds ==
    {{}, {"lost", "agentDies"}, {"late", "agentSave"}, {"late", "agentDies"},
     {"appDies", "save"}, {"agentDies", "save"}, {"helper"},
     {"link", "late"}, {"evaluate", "lost"}, {"overlap", "save"}}

DeployWorlds ==
    {{"reboot", "reinstall", "update", "cut"}, {"reboot", "update", "sameversion"},
     {"timeout", "update", "reinstall"}, {"killed", "update", "reinstall"},
     {"packaged", "update", "reboot"}, {"packaged", "command", "update", "sameversion"},
     {"crash", "update", "command"}}

MonitorWorlds ==
    {{"consent", "break"}, {"break"}, {"consent", "evict"}, {"consent", "udp"},
     {"consent", "switch", "slow"}, {"again"}, {"alarm"}, {"host"}}

MicWorlds ==
    {{"stream"}, {"stream", "fails", "dies"}, {"manual", "unreachable", "disk", "dies"},
     {"manual", "unreachable", "recreate", "dies"}, {"manual", "unreachable", "late"},
     {"manual", "preempt", "double", "dies"}}

SidecarWorlds == {{}, {"silence", "pipeline"}}

StreamWorlds ==
    {{}, {"adapt"}, {"late"}, {"late", "overtaken"}, {"steady", "teardown", "direct"}, {"faults"},
     {"impatient"}, {"again"}, {"other"}, {"second", "direct"}}

RtpWorlds ==
    {{"packets", "stray"}, {"packets", "outage"},
     {"packets", "older"}, {"control"}}

T == INSTANCE TunnelOwner WITH
    Configs <- {"a", "b"}, MaxLaunches <- 2, MaxVersion <- 3, world <- scene,
    Worlds <- TunnelWorlds
S == INSTANCE ConnectionSwitch WITH
    Mtus <- {1200, 1400}, Base <- 1400, MaxTransitions <- 2,
    MaxGeneration <- 2, world <- scene, Worlds <- SwitchWorlds
D == INSTANCE AgentDeploy WITH
    MaxCalls <- 3, MaxMixups <- 3, world <- scene, Worlds <- DeployWorlds
N == INSTANCE NetworkMonitor WITH
    MaxSessions <- 2, MaxProbes <- 2, PROBE_TIMEOUT <- 1, Stale <- 1,
    CONNECTION_LOST_AFTER <- 2, REARM_AFTER <- 2, BAD_PERSISTENCE <- 2,
    RECOVERY_PERSISTENCE <- 2, MAX_REPORT_SAMPLES <- 2, MaxTroubles <- 1,
    world <- scene, Worlds <- MonitorWorlds
M == INSTANCE MicSession WITH
    Instances <- {"a", "b"}, Commanded <- {"a"}, MaxTasks <- 3, MaxManual <- 2,
    MaxStreams <- 2, MaxDeaths <- 1, world <- scene, Worlds <- MicWorlds
C == INSTANCE MicSidecar WITH
    Devices <- {"d1", "d2"}, MaxChanges <- 2, MaxFaults <- 2, MaxRequests <- 4,
    world <- scene, Worlds <- SidecarWorlds
R == INSTANCE StreamSession WITH
    Instances <- {"i1", "i2"}, MaxAttempts <- 2, MaxGen <- 3, world <- scene,
    Worlds <- StreamWorlds
P == INSTANCE RtpReceiver WITH
    SequenceSpace <- 16, Offsets <- {0, 1, 13, 15}, Window <- 3,
    MaxPacket <- 7, MaxLate <- 4, MaxGap <- 3, Cooldown <- 4,
    StableSamples <- 3, MinimumMs <- 10, InitialMs <- 20, MaximumMs <- 34,
    Jitters <- {0, 8, 14}, world <- scene, Worlds <- RtpWorlds

tunnelState == <<helper, lock, record, status, stop, iface, caller, cleaner,
    file, control, version>>
TunnelOff ==
    /\ helper = "-" /\ lock = "-" /\ record = "-" /\ status = "-"
    /\ stop = "-" /\ iface = "-" /\ caller = "-" /\ cleaner = "-"
    /\ file = "-" /\ control = "-" /\ version = "-"
switchState == <<network, tunnel, conf, switch, recon, evaluated, agent, late>>
SwitchOff ==
    /\ network = "-" /\ tunnel = "-" /\ conf = "-" /\ switch = "-"
    /\ recon = "-" /\ evaluated = "-" /\ agent = "-" /\ late = "-"
deployState == <<keyring, machine, serving, attempt, scripts, mixups>>
DeployOff ==
    /\ keyring = "-" /\ machine = "-" /\ serving = "-" /\ attempt = "-"
    /\ scripts = "-" /\ mixups = "-"
monitorState == <<monitor, command, airborne, uplink, ghost, downlink,
    registry, latest, observed, failSafe, pathway, troubles>>
MonitorOff ==
    /\ monitor = "-" /\ command = "-" /\ airborne = "-" /\ uplink = "-"
    /\ ghost = "-" /\ downlink = "-" /\ registry = "-" /\ latest = "-"
    /\ observed = "-" /\ failSafe = "-" /\ pathway = "-" /\ troubles = "-"
micState == <<tasks, started, sessions, handles, alive, receiver, straggler,
    prefers, streaming, ended, pass, deaths>>
MicOff ==
    /\ tasks = "-" /\ started = "-" /\ sessions = "-" /\ handles = "-"
    /\ alive = "-" /\ receiver = "-" /\ straggler = "-" /\ prefers = "-"
    /\ streaming = "-" /\ ended = "-" /\ pass = "-" /\ deaths = "-"
sidecarState == <<daemon, signals, plugged, asked, changes, faults>>
SidecarOff ==
    /\ daemon = "-" /\ signals = "-" /\ plugged = "-" /\ asked = "-"
    /\ changes = "-" /\ faults = "-"
streamState == <<rt, nat, evq, att, watcher, closer, desk, changed, closed,
    settled>>
StreamOff ==
    /\ rt = "-" /\ nat = "-" /\ evq = "-" /\ att = "-" /\ watcher = "-"
    /\ closer = "-" /\ desk = "-" /\ changed = "-" /\ closed = "-"
    /\ settled = "-"
rtpState == <<offset, newest, tracker, accepted, first, controller,
    sinceRaise>>
RtpOff ==
    /\ offset = "-" /\ newest = "-" /\ tracker = "-" /\ accepted = "-"
    /\ first = "-" /\ controller = "-" /\ sinceRaise = "-"

\* One component is checked at a time; the others do not move.
PartInit ==
    /\ focus \in Parts
    /\ Init
    /\ focus # "ring" => world = {}
    /\ IF focus = "tunnel" THEN T!Init ELSE TunnelOff
    /\ IF focus = "switch" THEN S!Init ELSE SwitchOff
    /\ IF focus = "deploy" THEN D!Init ELSE DeployOff
    /\ IF focus = "monitor" THEN N!Init ELSE MonitorOff
    /\ IF focus = "mic" THEN M!Init ELSE MicOff
    /\ IF focus = "sidecar" THEN C!Init ELSE SidecarOff
    /\ IF focus = "stream" THEN R!Init ELSE StreamOff
    /\ IF focus = "rtp" THEN P!Init ELSE RtpOff
    /\ focus = "ring" => scene = {}

Only(p) ==
    /\ focus = p /\ UNCHANGED <<focus, scene>>
    /\ p # "ring" => UNCHANGED vars
    /\ p # "tunnel" => UNCHANGED tunnelState
    /\ p # "switch" => UNCHANGED switchState
    /\ p # "deploy" => UNCHANGED deployState
    /\ p # "monitor" => UNCHANGED monitorState
    /\ p # "mic" => UNCHANGED micState
    /\ p # "sidecar" => UNCHANGED sidecarState
    /\ p # "stream" => UNCHANGED streamState
    /\ p # "rtp" => UNCHANGED rtpState

PartNext ==
    \/ Only("ring") /\ Next
    \/ Only("tunnel") /\ T!Next
    \/ Only("switch") /\ S!Next
    \/ Only("deploy") /\ D!Next
    \/ Only("monitor") /\ N!Next
    \/ Only("mic") /\ M!Next
    \/ Only("sidecar") /\ C!Next
    \/ Only("stream") /\ R!Next
    \/ Only("rtp") /\ P!Next

partVars ==
    <<focus, vars, tunnelState, switchState, deployState, monitorState,
      micState, sidecarState, streamState, rtpState, scene>>

PartSpec == PartInit /\ [][PartNext]_partVars

-----------------------------------------------------------------------------
(* One owner of the tunnel, a verified tunnel runs what is on disk, and a  *)
(* stopped one stays down (TunnelOwner).                                   *)
TunnelSafe == focus = "tunnel" => T!TunnelSafe

(* Link, tunnel, configuration file and both records agree once a switch   *)
(* is completed or undone (ConnectionSwitch).                              *)
SwitchAgrees == focus = "switch" => S!SwitchAgrees

(* An agent reported ready is that of this release (AgentDeploy);          *)
(* probes are counted once, alarms are spaced, statistics are the running  *)
(* session's (NetworkMonitor).                                             *)
AgentsAgree ==
    /\ focus = "deploy" => D!ReadyMeansCurrent
    /\ focus = "monitor" => N!MonitorSound

(* Sidecar, session and receiver of an instance are about one session and  *)
(* the daemon's state follows it (MicSession, MicSidecar); no packet is    *)
(* passed on twice, the loss reported is real, and a burst of late packets *)
(* raises the latency once, within its range (RtpReceiver).                *)
MicAgrees ==
    [][/\ focus = "mic" => M!SidecarHasSession'
       /\ focus = "sidecar" => C!StateFollowsSession'
       /\ focus = "rtp" => /\ P!AcceptedOnce' /\ P!LossIsReal'
                           /\ P!RaisesSpaced]_partVars

(* A closed stream stays closed, a start is reconnected once, a live       *)
(* session ends only for a reason, and a stream that is up holds transport *)
(* changes back (StreamSession).                                           *)
StreamSound ==
    [][focus = "stream" => /\ R!ClosedStaysClosed' /\ R!ReconnectsOnce'
                          /\ R!LiveSessionKept /\ R!StreamKeepsNetwork]_partVars

=============================================================================
