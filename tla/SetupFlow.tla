----------------------------- MODULE SetupFlow -----------------------------
(***************************************************************************)
(* The guided setup that follows provisioning: bringing the managed tunnel *)
(* up for an instance, checking that Sunshine answers through it, pairing  *)
(* the embedded Moonlight client, and launching the PC                     *)
(* (post_wireguard_setup.rs and its commands).                             *)
(*                                                                         *)
(* Every VM has the same tunnel address, so who answers at that address is *)
(* decided by the tunnel that is up.  The desktop keeps three notions of   *)
(* "this instance": `focus`, the active instance; `setup.inst`, the one    *)
(* the guided setup is about; and the instance a command was called with.  *)
(* SSH goes to the focus, HTTP goes through the tunnel, and the outcome is *)
(* written to the record of `setup.inst`.                                  *)
(***************************************************************************)
EXTENDS Naturals, FiniteSets

CONSTANTS Instances,   \* provisioned VMs
          Slots,       \* commands that can run at the same time
          MaxJobs,     \* bound: commands issued one after the other
          MaxOverlap,  \* bound: commands issued when they overlap
          Worlds       \* behaviours of the outside that may happen together

VARIABLES focus,       \* state.instance.instance_id
          setup,       \* state.post_wireguard_setup
          server,      \* state.provisioned_servers
          link,        \* the instance whose tunnel is up
          mutating,    \* the command holding the WireGuard mutation flag
          job,         \* commands in progress
          host,        \* the VM whose certificate is pinned for each host
          accepts,     \* VMs whose Sunshine has the platform credentials
          session,     \* the instance a pairing PIN was drawn for
          issued,      \* commands issued so far
          world

allVars == <<focus, setup, server, link, mutating, job, host, accepts,
             session, issued, world>>

May(b) == b \in world
None == "none"

-----------------------------------------------------------------------------
(* State. *)

Idle == [op |-> None, pc |-> "idle", inst |-> None, retried |-> FALSE]

WireGuardStages == {"generated", "handoff", "waiting", "verifying", "connected"}
InteractiveStages == WireGuardStages
    \cup {"credentials", "sunshine", "pairing"}
Stages == InteractiveStages \cup {"pre", "complete", "failed"}

\* wireguard_status_for_setup_stage
StatusOfStage(s) ==
    CASE s = "pre" -> "notStarted"
      [] s \in WireGuardStages \cup {"failed"} -> s
      [] OTHER -> "connected"

NewServer == [file |-> FALSE, ready |-> FALSE, paired |-> FALSE, last |-> "pre"]

TypeOK ==
    /\ focus \in Instances \cup {None}
    /\ setup.inst \in Instances \cup {None}
    /\ setup.stage \in Stages
    /\ setup.paired \in BOOLEAN /\ setup.complete \in BOOLEAN
    /\ link \in Instances \cup {None}
    /\ host \in [Instances -> Instances \cup {None}]

Init ==
    /\ focus = None
    /\ setup = [inst |-> None, stage |-> "pre", status |-> "notStarted",
                paired |-> FALSE, complete |-> FALSE]
    /\ server = [i \in Instances |-> NewServer]
    /\ link = None /\ mutating = None
    /\ job = [s \in Slots |-> Idle]
    /\ host = [i \in Instances |-> None]
    /\ accepts = {} /\ session = None /\ issued = 0
    /\ world \in Worlds

\* active_wireguard_config_path: the active instance's config file, if any.
ConfigPath ==
    LET i == IF focus # None THEN focus ELSE setup.inst
    IN  IF i # None /\ server[i].file THEN i ELSE None

\* set_setup_failure: failures of a tunnel stage also fail the tunnel status.
SetupFailure(s) ==
    setup' = [setup EXCEPT !.stage = "failed",
                           !.status = IF s \in WireGuardStages THEN "failed" ELSE @]

\* Another command: alone, unless the user or provisioning overlap them.
Issue ==
    /\ May("overlap") \/ \A t \in Slots : job[t] = Idle
    /\ issued < IF May("overlap") THEN MaxOverlap ELSE MaxJobs
    /\ issued' = issued + 1

FreeSlot == CHOOSE s \in Slots \cup {None} :
                IF s = None THEN \A t \in Slots : job[t] # Idle ELSE job[s] = Idle

Begin(s, op, pc, i) ==
    /\ s = FreeSlot
    /\ Issue
    /\ job' = [job EXCEPT ![s] = [op |-> op, pc |-> pc, inst |-> i, retried |-> FALSE]]

Go(s, pc) == job' = [job EXCEPT ![s].pc = pc]

At(s, pc) == job[s].pc = pc

\* The end of a command, which also drops its mutation guard.
End(s) ==
    /\ job' = [job EXCEPT ![s] = Idle]
    /\ mutating' = IF mutating = s THEN None ELSE mutating

\* setup_local_wireguard_client and reconnect_local_wireguard_client: on
\* success the tunnel of p is up, on failure the earlier one may be up or not.
TunnelUp(p) == link' = p
TunnelFails(p) == May("faults") /\ link' \in {link, None}

-----------------------------------------------------------------------------
(* Provisioning hands an instance over; the user turns back to one. *)

\* The network lane wrote the config and initialize_post_wireguard_flow resets
\* the guided setup to that instance.
Initialize(i) ==
    /\ Issue
    /\ mutating = None
    /\ ~server[i].file
    /\ focus' = i
    /\ server' = [server EXCEPT ![i].file = TRUE, ![i].last = "generated"]
    /\ setup' = [inst |-> i, stage |-> "generated", status |-> "generated",
                 paired |-> FALSE, complete |-> FALSE]
    /\ accepts' \in {accepts, accepts \cup {i}}
    /\ UNCHANGED <<link, mutating, job, host, session>>

\* resume_provisioning_existing_instance
Resume(i) ==
    /\ Issue
    /\ server[i].file
    /\ focus' = i
    /\ IF server[i].last = "pre" THEN UNCHANGED setup ELSE
       LET mine == setup.inst = i
           restored == IF server[i].last \notin InteractiveStages THEN "pre"
                       ELSE IF mine /\ setup.stage # "pre" THEN setup.stage
                       ELSE server[i].last
       IN  setup' = [inst |-> i, stage |-> restored,
                     status |-> StatusOfStage(restored),
                     paired |-> IF mine THEN setup.paired ELSE server[i].paired,
                     complete |-> mine /\ setup.complete]
    /\ UNCHANGED <<server, link, mutating, job, host, accepts, session>>

-----------------------------------------------------------------------------
(* setup_wireguard_app_handoff and verify_wireguard_connection. *)

StartHandoff(s) ==
    /\ mutating = None /\ ConfigPath # None
    /\ Begin(s, "handoff", "activate", ConfigPath)
    /\ mutating' = s
    /\ setup' = [setup EXCEPT !.stage = "handoff", !.status = "handoff"]
    /\ UNCHANGED <<focus, server, link, host, accepts, session>>

Activate(s) ==
    /\ At(s, "activate")
    /\ \/ /\ TunnelUp(job[s].inst) /\ Go(s, "tune")
          /\ setup' = [setup EXCEPT !.stage = "verifying", !.status = "verifying"]
          /\ UNCHANGED mutating
       \/ TunnelFails(job[s].inst) /\ SetupFailure("handoff") /\ End(s)
    /\ UNCHANGED <<focus, server, host, accepts, session, issued>>

\* tune_connected_tunnel may restart the tunnel with another MTU, and restarts
\* it with the earlier one when that fails.
Tune(s) ==
    /\ At(s, "tune")
    /\ \/ link' \in {link, job[s].inst} /\ Go(s, "verify") /\ UNCHANGED <<setup, mutating>>
       \/ TunnelFails(job[s].inst) /\ SetupFailure("verifying") /\ End(s)
    /\ UNCHANGED <<focus, server, host, accepts, session, issued>>

\* The verify_wireguard command takes no mutation guard.
StartVerify(s) ==
    /\ Begin(s, "verify", "verify", None)
    /\ UNCHANGED <<focus, setup, server, link, mutating, host, accepts, session>>

VerifyBegins(s) ==
    /\ At(s, "verify")
    /\ setup' = [setup EXCEPT !.stage = "verifying", !.status = "verifying"]
    /\ Go(s, "probe")
    /\ UNCHANGED <<focus, server, link, mutating, host, accepts, session, issued>>

\* verify_managed_gotatun_tunnel for the active instance's config, then TCP to
\* the tunnel address.  job.inst becomes the instance that was verified.
Probe(s) ==
    /\ At(s, "probe")
    /\ \/ /\ ConfigPath = None /\ End(s) /\ UNCHANGED setup
       \/ /\ ConfigPath # None /\ link = ConfigPath
          /\ job' = [job EXCEPT ![s].pc = "verified", ![s].inst = link]
          /\ UNCHANGED <<setup, mutating>>
       \/ /\ ConfigPath # None /\ (link # ConfigPath \/ May("slow"))
          /\ SetupFailure("waiting") /\ End(s)
    /\ UNCHANGED <<focus, server, link, host, accepts, session, issued>>

Verified(s) ==
    /\ At(s, "verified")
    /\ setup' = [setup EXCEPT !.stage = "connected", !.status = "connected"]
    /\ server' = IF setup.inst = None THEN server
                 ELSE [server EXCEPT ![setup.inst].ready = TRUE]
    /\ IF job[s].op = "sync" THEN Go(s, "check") /\ UNCHANGED mutating ELSE End(s)
    /\ UNCHANGED <<focus, link, host, accepts, session, issued>>

-----------------------------------------------------------------------------
(* setup_moonlight_sunshine: the command runs without the mutation guard,  *)
(* a retry of the stage runs with it.                                      *)

StartSetup(s) ==
    /\ \/ /\ setup.inst = None \/ focus # setup.inst
          /\ s = FreeSlot /\ Issue
          /\ SetupFailure("generated")
          /\ UNCHANGED <<job, mutating>>
       \/ /\ setup.inst # None /\ focus = setup.inst /\ ConfigPath # None
          /\ Begin(s, "setup", "ensure", ConfigPath)
          /\ \/ UNCHANGED mutating
             \/ mutating = None /\ mutating' = s
          /\ UNCHANGED setup
    /\ UNCHANGED <<focus, server, link, host, accepts, session>>

\* Variant: any tunnel that is up will do.
EnsureAnyTunnel(s) ==
    /\ At(s, "ensure")
    /\ \/ link # None /\ UNCHANGED <<link, setup, mutating>> /\ Go(s, "configure")
       \/ /\ link = None
          /\ \/ TunnelUp(job[s].inst) /\ Go(s, "configure") /\ UNCHANGED <<setup, mutating>>
             \/ TunnelFails(job[s].inst) /\ SetupFailure("waiting") /\ End(s)
    /\ UNCHANGED <<focus, server, host, accepts, session, issued>>

Ensure(s) ==
    /\ At(s, "ensure")
    /\ \/ link = job[s].inst /\ UNCHANGED <<link, setup, mutating>> /\ Go(s, "configure")
       \/ /\ link # job[s].inst
          /\ \/ TunnelUp(job[s].inst) /\ Go(s, "configure") /\ UNCHANGED <<setup, mutating>>
             \/ TunnelFails(job[s].inst) /\ SetupFailure("waiting") /\ End(s)
    /\ UNCHANGED <<focus, server, host, accepts, session, issued>>

Configure(s) ==
    /\ At(s, "configure")
    /\ setup' = [setup EXCEPT !.stage = "credentials", !.status = "connected"]
    /\ Go(s, "repair")
    /\ UNCHANGED <<focus, server, link, mutating, host, accepts, session, issued>>

\* repair_sunshine_auth_state: credentials and restart over SSH to the focus.
Repair(s) ==
    /\ At(s, "repair")
    /\ \/ accepts' = accepts \cup {focus} /\ Go(s, "ready") /\ UNCHANGED mutating
       \/ May("faults") /\ End(s) /\ UNCHANGED accepts
    /\ UNCHANGED <<focus, setup, server, link, host, session, issued>>

\* A request through the tunnel that cannot connect: the tunnel is verified
\* and, once per call, reconnected.
Reconnects(s) ==
    /\ ~job[s].retried /\ ConfigPath # None /\ link # ConfigPath
    /\ job' = [job EXCEPT ![s].retried = TRUE]
    /\ (TunnelUp(ConfigPath) \/ TunnelFails(ConfigPath))

\* The API answers through the tunnel; then the TLS certificate is checked.
Ready(s) ==
    /\ At(s, "ready")
    /\ \/ link \in accepts /\ Go(s, "check") /\ UNCHANGED <<link, mutating>>
       \/ link = None /\ Reconnects(s) /\ UNCHANGED mutating
       \/ /\ link \notin accepts \/ May("slow")
          /\ End(s) /\ UNCHANGED link
    /\ UNCHANGED <<focus, setup, server, host, accepts, session, issued>>

\* verify_sunshine_api
ApiBegins(s) ==
    /\ At(s, "check")
    /\ setup' = [setup EXCEPT !.stage = "sunshine"]
    /\ job' = [job EXCEPT ![s].pc = "api", ![s].retried = FALSE]
    /\ UNCHANGED <<focus, server, link, mutating, host, accepts, session, issued>>

Api(s) ==
    /\ At(s, "api")
    /\ \/ /\ link \in accepts
          /\ IF job[s].op = "setup" THEN Go(s, "offer") /\ UNCHANGED mutating ELSE End(s)
          /\ UNCHANGED <<setup, link>>
       \/ link = None /\ Reconnects(s) /\ UNCHANGED <<setup, mutating>>
       \/ /\ link \notin accepts \/ May("slow")
          /\ SetupFailure("sunshine") /\ End(s) /\ UNCHANGED link
    /\ UNCHANGED <<focus, server, host, accepts, session, issued>>

\* The whole preparation is given SUNSHINE_PRE_PIN_VERIFY_TIMEOUT; past it the
\* flow returns to the tunnel step (reset_to_wireguard_recovery_step).
Timeout(s) ==
    /\ May("slow")
    /\ job[s].op = "setup" /\ job[s].pc \in {"repair", "ready", "check", "api"}
    /\ setup' = [setup EXCEPT !.stage = "waiting", !.status = "waiting",
                              !.paired = FALSE, !.complete = FALSE]
    /\ End(s)
    /\ UNCHANGED <<focus, server, link, host, accepts, session, issued>>

Offer(s) ==
    /\ At(s, "offer")
    /\ setup' = [setup EXCEPT !.stage = "pairing"]
    /\ End(s)
    /\ UNCHANGED <<focus, server, link, host, accepts, session, issued>>

-----------------------------------------------------------------------------
(* sync_instance_connection_internal, and the other commands that move the *)
(* tunnel.                                                                 *)

\* Interactive: the instance becomes the active one before the guard is asked.
\* It may be one that this desktop did not provision.
StartSync(s, i) ==
    /\ server[i].last # "pre" \/ May("elsewhere")
    /\ Begin(s, "sync", "guard", i)
    /\ focus' = i
    /\ UNCHANGED <<setup, server, link, mutating, host, accepts, session>>

SyncGuard(s) ==
    /\ At(s, "guard")
    /\ \/ mutating = None /\ mutating' = s /\ Go(s, "reinitialize")
       \/ mutating # None /\ End(s)
    /\ UNCHANGED <<focus, setup, server, link, host, accepts, session, issued>>

\* WireGuardService::configure, then refresh_instance_connection_state, which
\* moves the setup to the instance and keeps its stage.
SyncConfigure(s) ==
    /\ At(s, "reinitialize")
    /\ \/ LET i == job[s].inst
          IN  /\ server' = [server EXCEPT ![i].file = TRUE]
              /\ focus' = i
              /\ setup' = [setup EXCEPT !.inst = i]
              /\ Go(s, "reconnect") /\ UNCHANGED mutating
       \/ May("faults") /\ End(s) /\ UNCHANGED <<focus, setup, server>>
    /\ UNCHANGED <<link, host, accepts, session, issued>>

SyncReconnect(s) ==
    /\ At(s, "reconnect")
    /\ \/ TunnelUp(job[s].inst) /\ Go(s, "verify") /\ UNCHANGED mutating
       \/ TunnelFails(job[s].inst) /\ End(s)
    /\ UNCHANGED <<focus, setup, server, host, accepts, session, issued>>

\* Startup restore and the quick reconnect: the guard, a reconnect, no setup
\* state.
StartReconnect(s) ==
    /\ mutating = None /\ focus # None /\ server[focus].file
    /\ Begin(s, "restore", "restoring", focus)
    /\ mutating' = s
    /\ UNCHANGED <<focus, setup, server, link, host, accepts, session>>

Restore(s) ==
    /\ At(s, "restoring")
    /\ TunnelUp(job[s].inst) \/ TunnelFails(job[s].inst)
    /\ End(s)
    /\ UNCHANGED <<focus, setup, server, host, accepts, session, issued>>

StartDisconnect(s) ==
    /\ mutating = None /\ focus # None /\ server[focus].file
    /\ Begin(s, "disconnect", "down", focus)
    /\ mutating' = s
    /\ UNCHANGED <<focus, setup, server, link, host, accepts, session>>

Disconnect(s) ==
    /\ At(s, "down")
    /\ link' = IF link = job[s].inst THEN None ELSE link
    /\ setup' = [setup EXCEPT !.stage = "generated", !.status = "notStarted"]
    /\ End(s)
    /\ UNCHANGED <<focus, server, host, accepts, session, issued>>

\* The app is started again; the tunnel outlives it.  resume_if_needed calls
\* the setup complete when the active instance's record says so, and then
\* restores the tunnel (StartReconnect).
Restart ==
    /\ May("restart") /\ issued < MaxJobs /\ issued' = issued + 1
    /\ job' = [s \in Slots |-> Idle] /\ mutating' = None /\ session' = None
    /\ setup' = IF focus # None /\ server[focus].last = "complete"
                THEN [setup EXCEPT !.stage = "complete", !.paired = TRUE, !.complete = TRUE]
                ELSE setup
    /\ UNCHANGED <<focus, server, link, host, accepts>>

\* The tunnel stops without a command: helper killed, machine asleep.
Drop ==
    /\ May("drop") /\ link # None
    /\ link' = None
    /\ UNCHANGED <<focus, setup, server, mutating, job, host, accepts, session, issued>>

-----------------------------------------------------------------------------
(* Pairing and launching. *)

\* ensure_embedded_identity_ready_for_explicit_action: a lost private key
\* forgets every pairing, first in the Moonlight repository, then in the state.
Identity(s, next) ==
    \/ Go(s, next) /\ UNCHANGED host
    \/ /\ May("keyLost")
       /\ host' = [i \in Instances |-> None]
       /\ Go(s, "wipe")

Wipe(s) ==
    /\ At(s, "wipe")
    /\ server' = [i \in Instances |-> [server[i] EXCEPT !.paired = FALSE]]
    /\ setup' = [setup EXCEPT !.paired = FALSE, !.complete = FALSE]
    /\ Go(s, IF job[s].op = "launch" THEN "pairCheck" ELSE "refresh")
    /\ UNCHANGED <<focus, link, mutating, host, accepts, session, issued>>

\* The guided page offers the PIN for its own instance at the pairing stage.
StartPrepare(s, i) ==
    /\ (setup.stage = "pairing" /\ setup.inst = i) \/ May("elsewhere")
    /\ Begin(s, "prepare", "identity", i)
    /\ UNCHANGED <<focus, setup, server, link, mutating, host, accepts, session>>

PrepareIdentity(s) ==
    /\ At(s, "identity") /\ job[s].op = "prepare"
    /\ Identity(s, "refresh")
    /\ UNCHANGED <<focus, setup, server, link, mutating, accepts, session, issued>>

\* refresh_host needs an answer from the tunnel address, then begin_pairing.
Prepare(s) ==
    /\ At(s, "refresh")
    /\ \/ /\ link # None
          /\ session' = job[s].inst
          /\ setup' = [setup EXCEPT !.inst = job[s].inst, !.stage = "pairing",
                                    !.paired = FALSE, !.complete = FALSE]
       \/ (link = None \/ May("slow")) /\ UNCHANGED <<session, setup>>
    /\ End(s)
    /\ UNCHANGED <<focus, server, link, host, accepts, issued>>

StartComplete(s) ==
    /\ session # None
    /\ (setup.stage = "pairing" /\ setup.inst = session) \/ May("elsewhere")
    /\ Begin(s, "complete", "handshake", session)
    /\ UNCHANGED <<focus, setup, server, link, mutating, host, accepts, session>>

\* complete_pairing_with_stage1_authorization with the VM behind the tunnel;
\* the certificate it shows is pinned for the session's host.
Paired(i) == link \in accepts /\ host' = [host EXCEPT ![i] = link]

Handshake(s) ==
    /\ At(s, "handshake")
    /\ \/ /\ Paired(job[s].inst)
          /\ session' = None
          /\ Go(s, "record") /\ UNCHANGED mutating
       \/ /\ link \notin accepts \/ May("slow")
          /\ session' \in {session, None}
          /\ End(s) /\ UNCHANGED host
    /\ UNCHANGED <<focus, setup, server, link, accepts, issued>>

\* The outcome is saved, and then the step of the provisioning is marked.
RecordPaired(s) ==
    /\ At(s, "record")
    /\ server' = [server EXCEPT ![job[s].inst].paired = TRUE]
    /\ setup' = [setup EXCEPT !.inst = job[s].inst, !.stage = "complete",
                              !.paired = TRUE, !.complete = TRUE]
    /\ Go(s, "mark")
    /\ UNCHANGED <<focus, link, mutating, host, accepts, session, issued>>

MarkPaired(s) ==
    /\ At(s, "mark")
    /\ server' = [server EXCEPT ![job[s].inst].last = "complete"]
    /\ End(s)
    /\ UNCHANGED <<focus, setup, link, host, accepts, session, issued>>

\* start_launch_pc_for_instance never looks at the tunnel itself.
StartLaunch(s, i) ==
    /\ server[i].file
    /\ (i = focus /\ i = setup.inst /\ setup.status = "connected") \/ May("elsewhere")
    /\ Begin(s, "launch", "identity", i)
    /\ UNCHANGED <<focus, setup, server, link, mutating, host, accepts, session>>

LaunchIdentity(s) ==
    /\ At(s, "identity") /\ job[s].op = "launch"
    /\ Identity(s, "pairCheck")
    /\ UNCHANGED <<focus, setup, server, link, mutating, accepts, session, issued>>

\* refresh_host: a host that is not paired yet is paired automatically.
PairCheck(s) ==
    /\ At(s, "pairCheck")
    /\ \/ /\ link # None
          /\ job' = [job EXCEPT ![s].pc = IF host[job[s].inst] # None THEN "apps" ELSE "autoPair",
                                ![s].retried = FALSE]
          /\ UNCHANGED mutating
       \/ (link = None \/ May("slow")) /\ End(s)
    /\ UNCHANGED <<focus, setup, server, link, host, accepts, session, issued>>

\* auto_pair_embedded_host: some failures are tried once more with a new PIN.
AutoPair(s) ==
    /\ At(s, "autoPair")
    /\ \/ Paired(job[s].inst) /\ Go(s, "apps") /\ UNCHANGED mutating
       \/ /\ link \notin accepts \/ May("slow")
          /\ \/ End(s)
             \/ /\ ~job[s].retried
                /\ job' = [job EXCEPT ![s].retried = TRUE]
                /\ UNCHANGED mutating
          /\ UNCHANGED host
    /\ UNCHANGED <<focus, setup, server, link, accepts, session, issued>>

\* list_remote_apps and the stream start accept only the pinned certificate.
Launch(s) ==
    /\ At(s, "apps")
    /\ \/ /\ link # None /\ link = host[job[s].inst]
          /\ server' = [server EXCEPT ![job[s].inst].paired = TRUE]
       \/ (link # host[job[s].inst] \/ link = None \/ May("slow")) /\ UNCHANGED server
    /\ End(s)
    /\ UNCHANGED <<focus, setup, link, host, accepts, session, issued>>

-----------------------------------------------------------------------------
Step(s) ==
    \/ Activate(s) \/ Tune(s) \/ VerifyBegins(s) \/ Probe(s) \/ Verified(s)
    \/ Ensure(s) \/ Configure(s) \/ Repair(s) \/ Ready(s) \/ ApiBegins(s)
    \/ Api(s) \/ Timeout(s) \/ Offer(s)
    \/ SyncGuard(s) \/ SyncConfigure(s) \/ SyncReconnect(s)
    \/ Restore(s) \/ Disconnect(s)
    \/ Wipe(s) \/ PrepareIdentity(s) \/ Prepare(s) \/ Handshake(s)
    \/ RecordPaired(s) \/ MarkPaired(s) \/ LaunchIdentity(s) \/ PairCheck(s) \/ AutoPair(s) \/ Launch(s)

Start(s) ==
    \/ StartHandoff(s) \/ StartVerify(s) \/ StartSetup(s)
    \/ StartReconnect(s) \/ StartDisconnect(s) \/ StartComplete(s)
    \/ \E i \in Instances : StartSync(s, i) \/ StartPrepare(s, i) \/ StartLaunch(s, i)

Next ==
    /\ UNCHANGED world
    /\ \/ \E i \in Instances : Initialize(i) \/ Resume(i)
       \/ \E s \in Slots : Start(s) \/ Step(s)
       \/ Drop \/ Restart

Spec == Init /\ [][Next]_allVars

-----------------------------------------------------------------------------
(* Properties. *)

\* One command after the other, each to its end, from the guided page.
Guided == world \cap {"overlap", "faults", "restart", "elsewhere"} = {}

\* Every host's pinned certificate is that of its own VM: although every VM is
\* behind the same tunnel address, the guided flow pairs a host only while its
\* own tunnel is up.  Not promised when commands overlap or are cut short, or
\* for launches made from outside the guided page.
PairedHostMatches ==
    Guided =>
        \A i \in Instances : host[i] \in {None, i}

\* A step property: an instance's direct path is marked ready only by a verification of that
\* instance's own tunnel, unless commands overlap or one was cut short.
ReadyMeansVerified ==
    Guided =>
        \A i \in Instances :
            ~server[i].ready /\ server'[i].ready =>
                \E s \in Slots : At(s, "verified") /\ job[s].inst = i

\* A pairing the state records is one the Moonlight repository holds, except
\* while a lost identity is being wiped, also when commands overlap.
RecordedIsPinned ==
    \A i \in Instances :
        server[i].paired => host[i] # None \/ \E s \in Slots : At(s, "wipe")

=============================================================================
