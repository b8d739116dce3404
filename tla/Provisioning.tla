---------------------------- MODULE Provisioning ----------------------------
(***************************************************************************)
(* The desktop's provisioning pipeline (services/orchestration.rs and      *)
(* services/provisioning.rs): one run at a time takes an instance through  *)
(* the steps that turn a rented VM into a streaming host, skips the steps  *)
(* its server record already marks, works on the display and the network   *)
(* in two lanes, and hands over to the interactive set-up.  A second start *)
(* request is queued and cancels the current run; a stop request is obeyed *)
(* at the next stage boundary; the app may be killed and started again.    *)
(*                                                                         *)
(* Left out: progress events and the displayed state (orchestration_state, *)
(* last_state, last_error), which no step of the pipeline reads, and the   *)
(* paid creation request, which is PaidCreation's.                         *)
(***************************************************************************)
EXTENDS Naturals, FiniteSets

CONSTANTS
    Instances,  \* instances of the account
    None,
    Offer,      \* the request that rents the selected offer
    MaxStarts,  \* bound: start requests of the user
    MaxMoves,   \* bound: changes of an instance's endpoint or of its software
    MaxCrashes, \* bound: times the app is killed
    Worlds      \* sets of the behaviours below

(* "fails": a stage may report an error.  "unhealthy": the health check     *)
(* may fail.  "stop": the user asks to stop.  "sync": the user reconnects   *)
(* an instance meanwhile.  "mismatch": the VM's driver needs a reboot.      *)
(* "drift": software on a VM is changed between runs.  "moves": the         *)
(* provider maps an instance to another endpoint.  "crash": the app dies.   *)
Behaviours == {"fails", "unhealthy", "stop", "sync", "mismatch", "drift",
               "moves", "crash"}

VARIABLES
    guard,    \* orchestration_guard
    pending,  \* pending_start
    cancel,   \* cancel_requested
    run,      \* the spawned run: its stage, request, instance and endpoint
    disp,     \* the display lane's stage
    net,      \* the network lane's stage
    tail,     \* the end of the previous run, which takes the queued request
    mutation, \* wireguard_mutation_in_progress: who holds it
    sync,     \* a reconnect_instance_wireguard command
    active,   \* state.instance.instance_id
    setup,    \* post_wireguard_setup.current_instance_id
    rec,      \* server records: marked steps, and whether a tunnel is saved
    file,     \* endpoint in each instance's local WireGuard config
    vm,       \* what each VM has, and whether it has been rebooted
    endpoint, \* endpoint the provider maps to each instance
    asked,    \* history: a stop was asked of the run, before or after it
              \* was spawned
    count,    \* history: starts, moves and crashes, for the bounds
    world

app   == <<guard, pending, cancel, run, disp, net, tail, mutation, sync,
           active, setup, rec, file, vm, endpoint, asked, count>>
local == <<tail, sync, count>>
vars  == <<app, world>>

May(b)  == b \in world
Targets == Instances \cup {Offer}

(* ProvisionStepMarker, as far as a later run trusts it; the same names are *)
(* the effects on the VM.                                                   *)
Markers == {"ready", "ssh", "nvidia", "reboot", "sunshine", "audio",
            "wireguard", "mic", "paired"}
Effects == {"base", "nvidia", "sunshine", "audio", "wireguard", "mic",
            "lifecycle"}
Needed  == {"base", "nvidia", "sunshine", "audio", "wireguard", "lifecycle"}
AfterWireguard == {"wireguard", "mic", "paired"}

NoRun  == [pc |-> "none", req |-> None, inst |-> None, ep |-> 0]
NoSync == [pc |-> "none", inst |-> None, ep |-> 0]

Init ==
    /\ guard = FALSE /\ pending = None /\ cancel = FALSE
    /\ run = NoRun /\ disp = "none" /\ net = "none" /\ tail = None
    /\ mutation = "none" /\ sync = NoSync
    /\ active = None /\ setup = None
    /\ rec = [i \in Instances |-> [steps |-> {}, saved |-> FALSE]]
    /\ file = [i \in Instances |-> 0]
    /\ vm = [i \in Instances |-> [has |-> {}, boot |-> "old"]]
    /\ endpoint = [i \in Instances |-> 1]
    /\ asked = "no"
    /\ count = [starts |-> 0, moves |-> 0, crashes |-> 0]
    /\ world \in Worlds

(***************************************************************************)
(* Starting, queueing and stopping                                         *)
(***************************************************************************)
(* request_start while a run holds the guard: queue and cancel.             *)
Queue(q) ==
    /\ pending' = q
    /\ cancel' = TRUE
    /\ UNCHANGED <<guard, run>>

(* request_start otherwise: take the guard and check this computer's health.*)
Enter(q) ==
    /\ guard' = TRUE
    /\ run' = [NoRun EXCEPT !.pc = "health", !.req = q]
    /\ UNCHANGED <<pending, cancel>>

request_start(q) == IF guard THEN Queue(q) ELSE Enter(q)

start_play(q) ==
    /\ count.starts < MaxStarts
    /\ request_start(q)
    /\ count' = [count EXCEPT !.starts = @ + 1]
    /\ UNCHANGED <<disp, net, tail, mutation, sync, active, setup, rec, file,
                   vm, endpoint, asked>>

(* What the health report looks at.  Parts it cannot do without: a writable *)
(* data directory, the bundled programs and resources, a template hash.     *)
Essentials == {"app_data", "ssh", "scp", "ssh_keygen", "net_helper", "wintun",
               "resource_dir", "state_agent", "template"}

(* Parts it only warns about when they are missing.                         *)
Extras == {"schema", "mic_sender", "display", "cached_config"}

(* A computer: what is missing on it, the operating system, and how GitHub  *)
(* and the provider answer; at most one thing is out of order.              *)
Sound == [missing |-> {}, windows |-> TRUE, github |-> "success",
          vast |-> "success"]
Computers ==
    {Sound}
    \cup {[Sound EXCEPT !.missing = {p}, !.windows = w] :
            p \in Essentials \cup Extras, w \in BOOLEAN}
    \cup {[Sound EXCEPT !.github = g] : g \in {"other", "unreachable"}}
    \cup {[Sound EXCEPT !.vast = v] :
            v \in {"no_key", "rejected", "other", "unreachable"}}

(* HealthProbeStatus, and the probes one by one.                            *)
blocks_provisioning(status) == status = "failed"

part_probe(c, p)  == IF p \in c.missing THEN "failed" ELSE "ok"
extra_probe(c, p) == IF p \in c.missing THEN "warning" ELSE "ok"
wintun_probe(c)   == IF c.windows THEN part_probe(c, "wintun") ELSE "ok"
network_probe(c)  == IF c.github = "success" THEN "ok" ELSE "warning"
vast_probe(c) ==
    CASE c.vast \in {"no_key", "rejected"} -> "failed"
      [] c.vast = "success" -> "ok"
      [] OTHER -> "warning"

(* run_system_health_report: a warning does not keep provisioning from      *)
(* starting.                                                                *)
run_system_health_report(c) ==
    LET probes == {part_probe(c, p) : p \in Essentials \ {"wintun"}}
                  \cup {extra_probe(c, p) : p \in Extras}
                  \cup {wintun_probe(c), network_probe(c), vast_probe(c)}
    IN  \A status \in probes : ~blocks_provisioning(status)

(* The health check passes: the cancel flag is cleared and the run spawned. *)
Healthy ==
    /\ run.pc = "health"
    /\ \E c \in Computers : run_system_health_report(c)
    /\ cancel' = FALSE
    /\ run' = [run EXCEPT !.pc = "begin"]
    /\ UNCHANGED <<guard, pending, disp, net, mutation, active, setup, rec,
                   file, vm, endpoint, asked, local>>

(* It fails: the guard is given back and the request refused.               *)
Unhealthy ==
    /\ May("unhealthy")
    /\ run.pc = "health"
    /\ \E c \in Computers : ~run_system_health_report(c)
    /\ guard' = FALSE
    /\ run' = NoRun
    /\ asked' = "no"
    /\ UNCHANGED <<pending, cancel, disp, net, mutation, active, setup, rec,
                   file, vm, endpoint, local>>

request_stop_after_current_stage ==
    /\ May("stop")
    /\ ~cancel
    /\ cancel' = TRUE
    /\ asked' = CASE run.pc = "none" -> "no"
                  [] run.pc = "health" -> "early"
                  [] OTHER -> "yes"
    /\ UNCHANGED <<guard, pending, run, disp, net, mutation, active, setup, rec,
                   file, vm, endpoint, local>>

(* The spawned task's end: the guard is given back ...                      *)
RunEnds ==
    /\ run.pc \in {"done", "failed", "cancelled"}
    /\ tail = None
    /\ guard' = FALSE
    /\ run' = NoRun
    /\ tail' = "take"
    /\ asked' = "no"
    /\ UNCHANGED <<pending, cancel, disp, net, mutation, active, setup, rec,
                   file, vm, endpoint, sync, count>>

(* ... and then the queued request is taken and started like any other.     *)
TakePending ==
    /\ tail = "take"
    /\ tail' = pending
    /\ pending' = None
    /\ UNCHANGED <<guard, cancel, run, disp, net, mutation, active, setup, rec,
                   file, vm, endpoint, asked, sync, count>>

StartPending ==
    /\ tail \in Targets
    /\ request_start(tail)
    /\ tail' = None
    /\ UNCHANGED <<disp, net, mutation, active, setup, rec, file, vm, endpoint,
                   asked, sync, count>>

(***************************************************************************)
(* Helpers of the stages                                                   *)
(***************************************************************************)
Marked(i, s) == s \in rec[i].steps

(* mark_server_step_completed and clear_server_steps.                       *)
Mark(i, s)  == rec' = [rec EXCEPT ![i].steps = @ \cup {s}]
Clear(i, S) == rec' = [rec EXCEPT ![i].steps = @ \ S]

Apply(i, e) == vm' = [vm EXCEPT ![i].has = @ \cup {e}]

Goto(pc) == run' = [run EXCEPT !.pc = pc]

(* ensure_not_cancelled at the end of a stage of the main line ...          *)
Boundary(pc) == Goto(IF cancel THEN "cancelled" ELSE pc)

(* ... and at the end of a stage of a lane.                                 *)
LaneBoundary(pc) == IF cancel THEN "cancelled" ELSE pc

MayFail(pc) == May("fails") /\ run.pc = pc /\ Goto("failed")

front == <<guard, pending, cancel, tail, sync, asked, count, endpoint>>
lanes == <<disp, net, mutation>>

(***************************************************************************)
(* The main line                                                           *)
(***************************************************************************)
(* run_existing_instance_orchestration starts with a cancel check and makes *)
(* its instance the active one; run_orchestration does neither.             *)
Begin ==
    /\ run.pc = "begin"
    /\ \/ /\ run.req = Offer
          /\ Goto("key")
          /\ UNCHANGED active
       \/ /\ run.req # Offer
          /\ cancel
          /\ Goto("cancelled")
          /\ UNCHANGED active
       \/ /\ run.req # Offer
          /\ ~cancel
          /\ run' = [run EXCEPT !.pc = "key", !.inst = run.req]
          /\ active' = run.req
    /\ UNCHANGED <<front, lanes, setup, rec, file, vm>>

(* The SSH key pair is generated and uploaded.                              *)
EnsureKey ==
    /\ run.pc = "key"
    /\ Boundary("fetch")
    /\ UNCHANGED <<front, lanes, active, setup, rec, file, vm>>

(* The paid creation of a new instance, or the lookup of an existing one,   *)
(* each followed by a cancel check; only a creation that was not cancelled  *)
(* makes its instance the active one.  An offer that is gone is replaced by *)
(* an instance the account already has.                                     *)
Fetch ==
    /\ run.pc = "fetch"
    /\ \/ /\ run.req = Offer
          /\ \E i \in Instances :
                /\ rec[i].steps = {} /\ vm[i].has = {}
                /\ IF cancel
                   THEN Goto("cancelled") /\ UNCHANGED active
                   ELSE /\ run' = [run EXCEPT !.pc = "ready", !.inst = i,
                                             !.ep = endpoint[i]]
                        /\ active' = i
       \/ /\ run.req = Offer
          /\ May("fails")
          /\ \E i \in Instances :
                /\ rec[i].steps # {}
                /\ run' = [run EXCEPT !.pc = "begin", !.req = i]
                /\ active' = i
       \/ /\ run.req = Offer
          /\ \A i \in Instances : rec[i].steps # {} \/ vm[i].has # {}
          /\ Goto("failed")
          /\ UNCHANGED active
       \/ /\ run.req # Offer
          /\ run' = [run EXCEPT !.pc = IF cancel THEN "cancelled" ELSE "ready",
                                !.ep = endpoint[run.inst]]
          /\ UNCHANGED active
    /\ UNCHANGED <<front, lanes, setup, rec, file, vm>>

(* wait_until_ssh_ready polls the cancel flag too.                          *)
WaitReady ==
    /\ run.pc = "ready"
    /\ \/ /\ Marked(run.inst, "ready")
          /\ Boundary("reserve")
          /\ UNCHANGED rec
       \/ /\ ~Marked(run.inst, "ready")
          /\ Mark(run.inst, "ready")
          /\ Boundary("reserve")
       \/ /\ ~Marked(run.inst, "ready")
          /\ cancel
          /\ Goto("cancelled")
          /\ UNCHANGED rec
    /\ UNCHANGED <<front, lanes, active, setup, file, vm>>

(* verify_instance_reserved_in_account makes the instance active again and  *)
(* returns a fresh snapshot of it; the flag is read before every lookup and *)
(* after the verification.                                                  *)
VerifyReserved ==
    /\ run.pc = "reserve"
    /\ \/ /\ cancel
          /\ Goto("cancelled")
          /\ UNCHANGED active
       \/ /\ run' = [run EXCEPT !.pc = IF cancel THEN "cancelled" ELSE "ssh",
                                !.ep = endpoint[run.inst]]
          /\ active' = run.inst
    /\ UNCHANGED <<front, lanes, setup, rec, file, vm>>

wait_for_ssh_acceptance ==
    /\ run.pc = "ssh"
    /\ \/ /\ Marked(run.inst, "ssh") \/ ~cancel
          /\ Mark(run.inst, "ssh")
          /\ Boundary("base")
       \/ /\ ~Marked(run.inst, "ssh")
          /\ cancel
          /\ Goto("cancelled")
          /\ UNCHANGED rec
    /\ UNCHANGED <<front, lanes, active, setup, file, vm>>

(* Mutant: no cancel check between the base and the driver.                 *)
PrepareBaseUnchecked ==
    /\ run.pc = "base"
    /\ Apply(run.inst, "base")
    /\ Goto("nvidia")
    /\ UNCHANGED <<front, lanes, active, setup, rec, file>>

(* Packages, desktop password and state agent: applied on every run.        *)
PrepareBase ==
    /\ run.pc = "base"
    /\ Apply(run.inst, "base")
    /\ Boundary("nvidia")
    /\ UNCHANGED <<front, lanes, active, setup, rec, file>>

Mismatch(i) == May("mismatch") /\ vm[i].boot # "new"

(* NVIDIA headless set-up, unless the record marks it.                      *)
NvidiaSkip ==
    /\ run.pc = "nvidia"
    /\ Marked(run.inst, "nvidia")
    /\ Boundary("packages")
    /\ UNCHANGED <<front, lanes, active, setup, rec, file, vm>>

NvidiaSetup ==
    /\ run.pc \in {"nvidia", "again"}
    /\ ~Marked(run.inst, "nvidia")
    /\ \/ /\ ~Mismatch(run.inst)
          /\ Apply(run.inst, "nvidia")
          /\ Goto("nvidiaMark")
       \/ /\ Mismatch(run.inst)
          /\ Goto(IF run.pc = "again" THEN "failed" ELSE "reboot")
          /\ UNCHANGED vm
    /\ UNCHANGED <<front, lanes, active, setup, rec, file>>

NvidiaMark ==
    /\ run.pc = "nvidiaMark"
    /\ Mark(run.inst, "nvidia")
    /\ Boundary("packages")
    /\ UNCHANGED <<front, lanes, active, setup, file, vm>>

(* ensure_post_nvidia_reboot: nothing when the record marks the reboot;     *)
(* just the mark when the VM's own marker shows a new boot; else schedule.  *)
RebootSchedule ==
    /\ run.pc = "reboot"
    /\ \/ /\ Marked(run.inst, "reboot")
          /\ Boundary("again")
          /\ UNCHANGED <<rec, vm>>
       \/ /\ ~Marked(run.inst, "reboot")
          /\ vm[run.inst].boot = "new"
          /\ Mark(run.inst, "reboot")
          /\ Boundary("again")
          /\ UNCHANGED vm
       \/ /\ ~Marked(run.inst, "reboot")
          /\ vm[run.inst].boot # "new"
          /\ vm' = [vm EXCEPT ![run.inst].boot = "scheduled"]
          /\ Goto("reconnect")
          /\ UNCHANGED rec
    /\ UNCHANGED <<front, lanes, active, setup, file>>

(* The wait for SSH marks the reboot as soon as SSH answers, on whichever   *)
(* side of the reboot that is.                                              *)
RebootReconnect ==
    /\ run.pc = "reconnect"
    /\ \/ /\ cancel
          /\ Goto("cancelled")
          /\ UNCHANGED rec
       \/ /\ ~cancel
          /\ Mark(run.inst, "reboot")
          /\ Boundary("again")
    /\ UNCHANGED <<front, lanes, active, setup, file, vm>>

(* The packages are checked again; then both lanes start.                   *)
StartLanes ==
    /\ run.pc = "packages"
    /\ disp' = "sunshine" /\ net' = "refresh"
    /\ Goto("lanes")
    /\ UNCHANGED <<front, mutation, active, setup, rec, file, vm>>

(***************************************************************************)
(* The display lane                                                        *)
(***************************************************************************)
displayOnly == <<front, run, net, mutation, active, setup, file>>

(* A marked Sunshine is believed only after verify_resume_health.           *)
SunshineSkip ==
    /\ disp = "sunshine"
    /\ Marked(run.inst, "sunshine") /\ "sunshine" \in vm[run.inst].has
    /\ disp' = LaneBoundary("audio")
    /\ UNCHANGED <<displayOnly, rec, vm>>

SunshineInstall ==
    /\ disp = "sunshine"
    /\ ~(Marked(run.inst, "sunshine") /\ "sunshine" \in vm[run.inst].has)
    /\ Apply(run.inst, "sunshine")
    /\ disp' = "sunshineMark"
    /\ UNCHANGED <<displayOnly, rec>>

SunshineMark ==
    /\ disp = "sunshineMark"
    /\ Mark(run.inst, "sunshine")
    /\ disp' = LaneBoundary("audio")
    /\ UNCHANGED <<displayOnly, vm>>

Audio ==
    /\ disp = "audio"
    /\ IF Marked(run.inst, "audio")
       THEN disp' = LaneBoundary("ok") /\ UNCHANGED vm
       ELSE disp' = "audioMark" /\ Apply(run.inst, "audio")
    /\ UNCHANGED <<displayOnly, rec>>

AudioMark ==
    /\ disp = "audioMark"
    /\ Mark(run.inst, "audio")
    /\ disp' = LaneBoundary("ok")
    /\ UNCHANGED <<displayOnly, vm>>

DisplayFails ==
    /\ May("fails")
    /\ disp \in {"sunshine", "audio"}
    /\ disp' = "failed"
    /\ UNCHANGED <<displayOnly, rec, vm>>

(***************************************************************************)
(* The network lane                                                        *)
(***************************************************************************)
networkOnly == <<front, disp, active, setup>>

(* The endpoint is looked up again, or the cached one is used when that     *)
(* fails; then begin_wireguard_mutation refuses if somebody holds the flag. *)
RefreshEndpoint ==
    /\ net = "refresh"
    /\ \/ run' = [run EXCEPT !.ep = endpoint[run.inst]]
       \/ May("fails") /\ UNCHANGED run
    /\ IF mutation = "none"
       THEN net' = "decide" /\ mutation' = "run"
       ELSE net' = "failed" /\ UNCHANGED mutation
    /\ UNCHANGED <<networkOnly, rec, file, vm>>

(* A marked tunnel is kept when one is saved for the instance and its config*)
(* names the endpoint just looked up.                                       *)
KeepTunnel ==
    /\ net = "decide"
    /\ Marked(run.inst, "wireguard") /\ rec[run.inst].saved
    /\ file[run.inst] = run.ep
    /\ net' = "persist"
    /\ UNCHANGED <<networkOnly, run, mutation, rec, file, vm>>

(* Otherwise the steps that depend on the tunnel are cleared ...            *)
ClearTunnel ==
    /\ net = "decide"
    /\ Marked(run.inst, "wireguard")
    /\ ~(rec[run.inst].saved /\ file[run.inst] = run.ep)
    /\ Clear(run.inst, AfterWireguard)
    /\ net' = "configure"
    /\ UNCHANGED <<networkOnly, run, mutation, file, vm>>

(* ... and the tunnel is configured, on the VM and in the local config.     *)
ConfigureTunnel ==
    /\ \/ net = "configure"
       \/ net = "decide" /\ ~Marked(run.inst, "wireguard")
    /\ Apply(run.inst, "wireguard")
    /\ file' = [file EXCEPT ![run.inst] = run.ep]
    /\ net' = "wireguardMark"
    /\ UNCHANGED <<networkOnly, run, mutation, rec>>

WireguardMark ==
    /\ net = "wireguardMark"
    /\ Mark(run.inst, "wireguard")
    /\ net' = "persist"
    /\ UNCHANGED <<networkOnly, run, mutation, file, vm>>

(* The config is compared with the endpoint once more and the tunnel saved  *)
(* in the record.  A run of an existing instance has given up the mutation  *)
(* flag by then; a run of a new one gives it up after.                      *)
ReleaseEarly ==
    /\ net = "persist"
    /\ run.req # Offer
    /\ mutation = "run"
    /\ mutation' = "none"
    /\ UNCHANGED <<networkOnly, run, net, rec, file, vm>>

PersistTunnel ==
    /\ net = "persist"
    /\ run.req # Offer => mutation # "run"
    /\ mutation' = IF run.req = Offer THEN "none" ELSE mutation
    /\ IF file[run.inst] = run.ep
       THEN /\ rec' = [rec EXCEPT ![run.inst].saved = TRUE]
            /\ net' = LaneBoundary("agents")
       ELSE net' = "failed" /\ UNCHANGED rec
    /\ UNCHANGED <<networkOnly, run, file, vm>>

(* The lifecycle agent must be installed; the network agent may be missing. *)
InstallAgents ==
    /\ net = "agents"
    /\ Apply(run.inst, "lifecycle")
    /\ net' = "ok"
    /\ UNCHANGED <<networkOnly, run, mutation, rec, file>>

(* An error drops the mutation guard with the lane's future.                *)
NetworkFails ==
    /\ May("fails")
    /\ net \in {"configure", "agents"}
    /\ net' = "failed"
    /\ mutation' = IF net = "configure" THEN "none" ELSE mutation
    /\ UNCHANGED <<networkOnly, run, rec, file, vm>>

(***************************************************************************)
(* After the lanes                                                         *)
(***************************************************************************)
Ended(lane) == lane \in {"ok", "failed", "cancelled"}

(* join_lanes waits for both; the display's error is reported first.        *)
Joined == Ended(disp) /\ Ended(net)

join_lanes ==
    /\ run.pc = "lanes"
    /\ Joined
    /\ Goto(IF disp # "ok" THEN disp ELSE IF net # "ok" THEN net ELSE "mic")
    /\ disp' = IF Ended(disp) THEN "none" ELSE disp
    /\ net' = IF Ended(net) THEN "none" ELSE net
    /\ UNCHANGED <<front, mutation, active, setup, rec, file, vm>>

(* A microphone receiver that cannot be installed does not stop the run.    *)
MicReceiver ==
    /\ run.pc = "mic"
    /\ \/ Apply(run.inst, "mic") /\ Mark(run.inst, "mic")
       \/ May("fails") /\ UNCHANGED <<vm, rec>>
    /\ Boundary("handoff")
    /\ UNCHANGED <<front, lanes, active, setup, file>>

(* initialize_post_wireguard_flow needs the config file.                    *)
Handoff ==
    /\ run.pc = "handoff"
    /\ IF file[run.inst] # 0
       THEN setup' = run.inst /\ Goto("done")
       ELSE Goto("failed") /\ UNCHANGED setup
    /\ UNCHANGED <<front, lanes, active, rec, file, vm>>

(* Any stage of the main line that talks to the provider or to the VM.      *)
StageFails ==
    /\ \E pc \in {"begin", "key", "fetch", "ready", "reserve", "ssh", "base",
                  "nvidia", "reboot", "reconnect", "again", "packages"} :
          MayFail(pc)
    /\ UNCHANGED <<front, lanes, active, setup, rec, file, vm>>

(***************************************************************************)
(* reconnect_instance_wireguard meanwhile (sync_instance_connection)       *)
(***************************************************************************)
syncOnly == <<guard, pending, cancel, run, disp, net, tail, asked, count,
              endpoint>>

(* The instance is looked up and made active ...                            *)
SyncLookup(i) ==
    /\ May("sync")
    /\ sync.pc = "none"
    /\ rec[i].steps # {}
    /\ sync' = [pc |-> "seen", inst |-> i, ep |-> endpoint[i]]
    /\ active' = i
    /\ UNCHANGED <<syncOnly, mutation, setup, rec, file, vm>>

(* ... the mutation flag is taken, or the command fails ...                 *)
SyncBegin ==
    /\ sync.pc = "seen"
    /\ IF mutation = "none"
       THEN mutation' = "sync" /\ sync' = [sync EXCEPT !.pc = "configure"]
       ELSE sync' = NoSync /\ UNCHANGED mutation
    /\ UNCHANGED <<syncOnly, active, setup, rec, file, vm>>

(* ... and the tunnel configured and saved for the endpoint it looked up.   *)
SyncConfigure ==
    /\ sync.pc = "configure"
    /\ Apply(sync.inst, "wireguard")
    /\ file' = [file EXCEPT ![sync.inst] = sync.ep]
    /\ rec' = [rec EXCEPT ![sync.inst].saved = TRUE]
    /\ active' = sync.inst /\ setup' = sync.inst
    /\ mutation' = "none"
    /\ sync' = NoSync
    /\ UNCHANGED syncOnly

(***************************************************************************)
(* The provider, the VM and the computer                                   *)
(***************************************************************************)
outside == <<guard, pending, cancel, run, disp, net, tail, mutation, sync,
             active, setup, rec, file, asked>>

Moved == /\ count.moves < MaxMoves
         /\ count' = [count EXCEPT !.moves = @ + 1]

EndpointMoves(i) ==
    /\ May("moves")
    /\ Moved
    /\ endpoint' = [endpoint EXCEPT ![i] = @ + 1]
    /\ UNCHANGED <<outside, vm>>

(* Sunshine is removed or reconfigured on a VM no run is working on.        *)
Drift(i) ==
    /\ May("drift") /\ ~guard
    /\ "sunshine" \in vm[i].has
    /\ Moved
    /\ vm' = [vm EXCEPT ![i].has = @ \ {"sunshine"}]
    /\ UNCHANGED <<outside, endpoint>>

VmReboots(i) ==
    /\ vm[i].boot = "scheduled"
    /\ vm' = [vm EXCEPT ![i].boot = "new"]
    /\ UNCHANGED <<outside, endpoint, count>>

(* The app is killed and started again: what is not saved is lost.          *)
Restart ==
    /\ May("crash")
    /\ count.crashes < MaxCrashes
    /\ guard \/ tail # None
    /\ count' = [count EXCEPT !.crashes = @ + 1]
    /\ guard' = FALSE /\ pending' = None /\ cancel' = FALSE
    /\ run' = NoRun /\ disp' = "none" /\ net' = "none" /\ tail' = None
    /\ mutation' = "none" /\ sync' = NoSync /\ asked' = "no"
    /\ UNCHANGED <<active, setup, rec, file, vm, endpoint>>

RunStep ==
    \/ Begin \/ EnsureKey \/ Fetch \/ WaitReady \/ VerifyReserved
    \/ wait_for_ssh_acceptance \/ PrepareBase
    \/ NvidiaSkip \/ NvidiaSetup \/ NvidiaMark
    \/ RebootSchedule \/ RebootReconnect \/ StartLanes
    \/ join_lanes \/ MicReceiver \/ Handoff \/ StageFails

DisplayStep == SunshineSkip \/ SunshineInstall \/ SunshineMark \/ Audio
               \/ AudioMark \/ DisplayFails

NetworkStep == RefreshEndpoint \/ KeepTunnel \/ ClearTunnel \/ ConfigureTunnel
               \/ WireguardMark \/ ReleaseEarly \/ PersistTunnel
               \/ InstallAgents \/ NetworkFails

Control == Healthy \/ Unhealthy \/ RunEnds \/ TakePending \/ StartPending

SyncStep == SyncBegin \/ SyncConfigure

Next ==
    /\ \/ \E q \in Targets : start_play(q)
       \/ request_stop_after_current_stage
       \/ Control \/ RunStep \/ DisplayStep \/ NetworkStep \/ SyncStep
       \/ \E i \in Instances : SyncLookup(i) \/ EndpointMoves(i) \/ Drift(i)
                               \/ VmReboots(i)
       \/ Restart
    /\ UNCHANGED world

Spec == Init /\ [][Next]_vars

(* Every await of the pipeline has a timeout, the task scheduler runs every *)
(* spawned task, and a scheduled reboot happens.                            *)
Fairness ==
    /\ WF_app(Control) /\ WF_app(RunStep)
    /\ WF_app(DisplayStep) /\ WF_app(NetworkStep) /\ WF_app(SyncStep)

FairSpec == Spec /\ Fairness

(***************************************************************************)
(* Properties                                                              *)
(***************************************************************************)
TypeOK ==
    /\ guard \in BOOLEAN /\ cancel \in BOOLEAN
    /\ pending \in Targets \cup {None}
    /\ tail \in Targets \cup {None, "take"}
    /\ run.req \in Targets \cup {None}
    /\ run.inst \in Instances \cup {None}
    /\ mutation \in {"none", "run", "sync"}
    /\ active \in Instances \cup {None} /\ setup \in Instances \cup {None}
    /\ \A i \in Instances : /\ rec[i].steps \subseteq Markers
                            /\ vm[i].has \subseteq Effects

(* A step property: a run hands an instance over to the interactive set-up  *)
(* only when its VM has everything the pipeline installs, including what    *)
(* the run skipped, and the local config names the endpoint the run looked  *)
(* up: marks left by cancelled, failed or killed runs, drift and moved      *)
(* endpoints included (run_orchestration's skips; a concurrent reconnect is *)
(* left out here).                                                          *)
HandoffComplete ==
    \A i \in Instances :
        (run.pc = "handoff" /\ run'.pc = "done" /\ run.inst = i) =>
            /\ Needed \subseteq vm[i].has
            /\ ~May("sync") => file[i] = run.ep

(* No lane works on a VM, and no run holds the tunnel mutation flag, once   *)
(* the guard has been given back: the next run races no orphaned remote     *)
(* command (join_lanes drains both lanes even on failure).                  *)
LanesDrained ==
    ~guard => disp = "none" /\ net = "none" /\ mutation # "run"

(* Stages that change a VM or the account.                                  *)
Working(pc) == pc \in {"fetch", "reserve", "ssh", "base", "nvidia", "again",
                       "packages", "lanes", "handoff"}

(* A step property: a run that was asked to stop begins no further stage;   *)
(* it ends cancelled at its next boundary, or with the result of the stage  *)
(* it was in.  The one boundary without a check, between the second package *)
(* check and the lanes, is named.                                           *)
StopRespected ==
    asked = "yes" /\ asked' = "yes" /\ run'.pc # run.pc =>
        ~Working(run'.pc) \/ run.pc = "packages"

(* A start is queued behind a run that has passed its health check.  One    *)
(* queued during a health check that then fails stays queued: request_start *)
(* gives the guard back and nothing takes the request.                      *)
QueuedBehindRun == pending # None /\ run.pc \notin {"none", "health"}
=============================================================================
