-------------------------- MODULE ConnectionSwitch --------------------------
(***************************************************************************)
(* Switching an instance's tunnel between the direct path and a TURN       *)
(* relay.  The desktop (ConnectionManager) and the agent on the instance   *)
(* (TurnManager) run a transaction over a connection profile: the agent    *)
(* prepares it under a lease and sets its MTU, the desktop moves its own   *)
(* tunnel and validates it, the agent commits, the desktop records.  Calls *)
(* are lost or late, either side dies, saves fail and leases lapse.        *)
(* An endpoint is the generation of its relay allocation; Direct is 0.     *)
(***************************************************************************)
EXTENDS Naturals, FiniteSetsExt

CONSTANTS Mtus, Base,        \* MTUs a plan may choose; the MTU of an unconfigured link
          MaxTransitions,    \* bound: switches begun
          MaxGeneration,     \* bound: relay allocations
          Worlds             \* which of AllFaults may happen besides the normal course

AllFaults ==
    {"lost",        \* a request or a reply of the host control is lost
     "late",        \* a request arrives after its caller has given up
     "agentDies",   \* the agent, or its machine, restarts
     "appDies",     \* the desktop restarts
     "save",        \* the desktop's state file cannot be saved
     "agentSave",   \* the agent's state file cannot be saved
     "link",        \* the agent's link cannot be read or set, or takes another MTU
     "helper",      \* the tunnel helper or the tunnel's configuration file fails
     "evaluate",    \* the automatic evaluation runs
     "overlap"}     \* a switch begins while a reconciliation waits for its answer

VARIABLES
    network,   \* the instance's InstanceNetworkState in the desktop's state file
    tunnel,    \* endpoint and MTU the tunnel helper runs
    conf,      \* endpoint and MTU in the tunnel's configuration file
    switch,    \* ConnectionManager::switch_inner
    recon,     \* ConnectionManager::reconcile_committed_profile
    evaluated, \* relay an evaluation has still to record, 0 when none runs
    agent,     \* TurnManager, its state file and its link
    late,      \* a request still under way to the agent
    world

desk == <<network, tunnel, conf, switch, recon, evaluated>>
net == <<desk, agent, late>>
vars == <<net, world>>

May(f) == f \in world

Direct == 0
NoProfile == [tid |-> 0, kind |-> "direct", ep |-> Direct, mtu |-> Base, rev |-> 0]
NoPending == [profile |-> NoProfile, prev |-> 0]
NoRequest == [op |-> "none", profile |-> NoProfile]
IdleRecon == [pc |-> "idle"]

Init ==
    /\ world \in Worlds
    /\ network = [active |-> "direct", phase |-> "Idle", tid |-> 0, profile |-> NoProfile,
                  relay |-> 0, generation |-> 0]
    /\ tunnel = [ep |-> Direct, mtu |-> Base]
    /\ conf = tunnel
    /\ switch = [pc |-> "idle", tid |-> 0, kind |-> "direct", before |-> tunnel, plan |-> tunnel, rev |-> 0]
    /\ recon = IdleRecon
    /\ evaluated = 0
    /\ agent = [up |-> TRUE, mtu |-> Base, retiring |-> {}, lapsed |-> FALSE,
                mem |-> [committed |-> NoProfile, pending |-> NoPending, generation |-> 0, relay |-> 0, ready |-> FALSE],
                disk |-> [committed |-> NoProfile, pending |-> NoPending, generation |-> 0]]
    /\ late = NoRequest

-----------------------------------------------------------------------------
(* The agent on the instance.  One lock serialises its operations.         *)

Durable(m) == [committed |-> m.committed, pending |-> m.pending, generation |-> m.generation]
Stored(a, m) == [a EXCEPT !.mem = m, !.disk = Durable(m)]
Unstored(a, m) == [a EXCEPT !.mem = m]

RestoredMtu(p) == p.prev

Released(a) ==
    LET m == [a.mem EXCEPT !.pending = NoPending]
    IN  [Stored(a, m) EXCEPT !.mtu = RestoredMtu(a.mem.pending), !.lapsed = FALSE]

\* The outcomes of an operation: the agent afterwards and whether it answers with success.
Answer(a, ok) == [agent |-> a, ok |-> ok]
Failures(fault, S) == IF May(fault) THEN {Answer(a, FALSE) : a \in S} ELSE {}

Expired(a) == a.mem.pending # NoPending /\ a.lapsed
Reconciled(a) == IF Expired(a) THEN Released(a) ELSE a

\* the first step of every other operation but the abort
reconcile_expired_profile(a) ==
    {Answer(Reconciled(a), TRUE)}
    \cup (IF Expired(a)
          THEN Failures("agentSave", {[Released(a) EXCEPT !.disk = a.disk]}) \cup Failures("link", {a})
          ELSE {})

\* What a new agent takes over from the state file: no relay and no credentials.
Loaded(d) == [committed |-> d.committed, pending |-> NoPending, generation |-> d.generation, relay |-> 0, ready |-> FALSE]
Died(a) == [a EXCEPT !.up = FALSE, !.retiring = {}, !.lapsed = FALSE, !.mem = Loaded(a.disk)]

Allowed(a, p) ==
    /\ a.mem.pending = NoPending
    /\ p.rev = a.mem.committed.rev + 1
    /\ p.kind = "turn" => p.ep = a.mem.generation /\ p.ep = a.mem.relay

prepare_reconciled(a, p) ==
    LET m == [a.mem EXCEPT !.pending = [profile |-> p, prev |-> a.mtu]]
        journaled == [Stored(a, m) EXCEPT !.lapsed = FALSE]
        applied == [journaled EXCEPT !.mtu = p.mtu]
    IN  IF a.mem.pending.profile = p THEN {Answer(a, TRUE)}
        ELSE IF ~Allowed(a, p) THEN {Answer(a, FALSE)}
        ELSE {Answer(applied, TRUE)}
             \cup Failures("agentSave", {Unstored(a, m), applied})
             \cup Failures("link", {a, applied})
             \cup (IF May("link") THEN {Answer([journaled EXCEPT !.mtu = mtu], TRUE) : mtu \in Mtus} ELSE {})
             \cup Failures("agentDies", {Died(journaled), Died(applied)})

CommittedState(a) ==
    [a.mem EXCEPT !.committed = a.mem.pending.profile, !.pending = NoPending]

commit_reconciled(a, p) ==
    LET done == Stored(a, CommittedState(a))
    IN  IF a.mem.committed = p THEN {Answer(a, TRUE)}
        ELSE IF a.mem.pending.profile # p \/ a.mtu # p.mtu THEN {Answer(a, FALSE)}
        ELSE {Answer(done, TRUE)}
             \cup Failures("agentSave", {a}) \cup Failures("link", {a})
             \cup Failures("agentDies", {Died(done)})

prepare_connection_profile(a, p) ==
    UNION {IF r.ok THEN prepare_reconciled(r.agent, p) ELSE {r} : r \in reconcile_expired_profile(a)}

commit_connection_profile(a, p) ==
    UNION {IF r.ok THEN commit_reconciled(r.agent, p) ELSE {r} : r \in reconcile_expired_profile(a)}

abort_connection_profile(a, p) ==
    LET done == Released(a)
        unsaved == [done EXCEPT !.disk = a.disk]
    IN  IF a.mem.pending = NoPending THEN {Answer(a, TRUE)}
        ELSE IF a.mem.pending.profile # p THEN {Answer(a, FALSE)}
        ELSE {Answer(done, TRUE)}
             \cup Failures("agentSave", {unsaved}) \cup Failures("link", {a})
             \cup Failures("agentDies", {Died(unsaved)})

dispatch_method(a, request) ==
    CASE request.op = "prepare" -> prepare_connection_profile(a, request.profile)
      [] request.op = "commit"  -> commit_connection_profile(a, request.profile)
      [] request.op = "abort"   -> abort_connection_profile(a, request.profile)

\* prepare_turn: the replaced bridge lives on for REPLACEMENT_OVERLAP
prepare_turn(a, g) ==
    LET m == [a.mem EXCEPT !.generation = g, !.relay = g, !.ready = TRUE]
    IN  [Stored(a, m) EXCEPT !.retiring = @ \cup (IF a.mem.ready THEN {a.mem.relay} ELSE {})]

stop_turn(a) ==
    LET m == [a.mem EXCEPT !.relay = 0, !.ready = FALSE]
    IN  [Stored(a, m) EXCEPT !.retiring = {}]

LeaseLapses ==
    /\ agent.mem.pending # NoPending
    /\ ~agent.lapsed
    /\ agent' = [agent EXCEPT !.lapsed = TRUE]
    /\ UNCHANGED <<desk, late, world>>

BridgeFails ==
    /\ agent.up
    /\ agent.mem.ready
    /\ agent' = [agent EXCEPT !.mem.ready = FALSE]
    /\ UNCHANGED <<desk, late, world>>

RetireRelay ==
    /\ agent.retiring # {}
    /\ agent' = [agent EXCEPT !.retiring = @ \ {Min(@)}]
    /\ UNCHANGED <<desk, late, world>>

AgentDies ==
    /\ May("agentDies")
    /\ agent.up
    /\ \E mtu \in {agent.mtu, Base} : agent' = [Died(agent) EXCEPT !.mtu = mtu]
    /\ UNCHANGED <<desk, late, world>>

LinkAtStart(a) ==
    IF a.disk.pending # NoPending THEN RestoredMtu(a.disk.pending)
    ELSE IF a.disk.committed # NoProfile THEN a.disk.committed.mtu
    ELSE a.mtu

AgentStarts ==
    /\ ~agent.up
    /\ agent' = [Stored(agent, Loaded(agent.disk)) EXCEPT !.up = TRUE, !.mtu = LinkAtStart(agent)]
    /\ UNCHANGED <<desk, late, world>>

-----------------------------------------------------------------------------
(* Calls from the desktop to the agent.                                    *)

Call(request, ok) ==
    \/ /\ agent.up
       /\ \E r \in dispatch_method(agent, request) :
             /\ agent' = r.agent
             /\ ok = r.ok \/ (May("lost") /\ ~ok)
       /\ UNCHANGED late
    \/ /\ ~ok
       /\ ~agent.up \/ May("lost")
       /\ UNCHANGED <<agent, late>>
    \/ /\ ~ok
       /\ May("late")
       /\ late = NoRequest
       /\ late' = request
       /\ UNCHANGED agent

LateArrives ==
    /\ late # NoRequest
    /\ late' = NoRequest
    /\ \/ /\ agent.up
          /\ \E r \in dispatch_method(agent, late) : agent' = r.agent
       \/ ~agent.up /\ UNCHANGED agent
    /\ UNCHANGED <<desk, world>>

\* get_network_status also releases a lapsed transaction
get_status(ok) ==
    /\ \/ /\ agent.up
          /\ \E r \in reconcile_expired_profile(agent) : ok = r.ok /\ agent' = r.agent
       \/ ~ok /\ (~agent.up \/ May("lost")) /\ UNCHANGED agent
    /\ UNCHANGED late

-----------------------------------------------------------------------------
(* switch_inner.  The allocation lock is held throughout.                  *)

AllocationFree == switch.pc = "idle" /\ evaluated = 0
At(pc) == switch.pc = pc
Go(pc) == switch' = [switch EXCEPT !.pc = pc]

Profile == [tid |-> switch.tid, kind |-> switch.kind, ep |-> switch.plan.ep, mtu |-> switch.plan.mtu, rev |-> switch.rev]

\* persist_transition_phase writes only while the record shows this transition
Phased(phase) ==
    network' = IF network.tid = switch.tid THEN [network EXCEPT !.phase = phase] ELSE network
Unsaved == May("save") /\ UNCHANGED network
Failed == network' = [network EXCEPT !.phase = "Failed", !.tid = switch.tid] \/ Unsaved

Begin(kind, force) ==
    /\ AllocationFree
    /\ recon = IdleRecon \/ May("overlap")
    /\ switch.tid < MaxTransitions
    /\ force \/ network.active # kind
    /\ network' = [network EXCEPT !.phase = "ValidatingTarget", !.tid = switch.tid + 1]
    /\ switch' = [pc |-> "target", tid |-> switch.tid + 1, kind |-> kind, before |-> tunnel, plan |-> tunnel, rev |-> 0]
    /\ UNCHANGED <<tunnel, conf, recon, evaluated, agent, late, world>>

Planned(ep, mtu) == switch' = [switch EXCEPT !.pc = "status", !.plan = [ep |-> ep, mtu |-> mtu]]
NextGeneration(a) == Max({a.mem.generation, network.generation}) + 1

\* prepare_target
PrepareDirect ==
    /\ At("target")
    /\ switch.kind = "direct"
    /\ \E mtu \in Mtus : Planned(Direct, mtu)
    /\ \E ok \in BOOLEAN : get_status(ok)
    /\ UNCHANGED <<network, tunnel, conf, recon, evaluated, world>>

ensure_relay_target(a, g) ==
    \/ a.mem.ready /\ g = a.mem.relay /\ agent' = a
    \/ g = NextGeneration(a) /\ g <= MaxGeneration /\ agent' = prepare_turn(a, g)

PrepareTurn ==
    /\ At("target")
    /\ switch.kind = "turn"
    /\ agent.up
    /\ \E g \in 1..MaxGeneration, mtu \in Mtus :
          /\ ensure_relay_target(Reconciled(agent), g)
          /\ Planned(g, mtu)
    /\ UNCHANGED <<network, tunnel, conf, recon, evaluated, late, world>>

TargetFails ==
    /\ At("target")
    /\ Failed
    /\ Go("idle")
    /\ \/ UNCHANGED agent
       \/ \E r \in reconcile_expired_profile(agent) : agent.up /\ ~r.ok /\ agent' = r.agent
       \/ /\ agent.up /\ switch.kind = "turn" /\ May("lost")
          /\ \E g \in 1..MaxGeneration : ensure_relay_target(Reconciled(agent), g)
    /\ UNCHANGED <<tunnel, conf, recon, evaluated, late, world>>

\* A failing connection is recorded; a failing status returns before anything is.
AskStatus ==
    /\ At("status")
    /\ \E ok \in BOOLEAN :
          /\ get_status(ok)
          /\ IF ok THEN switch' = [switch EXCEPT !.pc = "prepare", !.rev = agent'.mem.committed.rev + 1]
                   ELSE Go("idle")
          /\ UNCHANGED network \/ (~ok /\ Failed)
    /\ UNCHANGED <<tunnel, conf, recon, evaluated, world>>

\* A host that reads back another MTU is aborted without recording the failure.
Prepare ==
    /\ At("prepare")
    /\ \E ok \in BOOLEAN :
          /\ Call([op |-> "prepare", profile |-> Profile], ok)
          /\ Go(IF ~ok THEN "abortFailed" ELSE IF agent'.mtu = switch.plan.mtu THEN "applying" ELSE "abort")
    /\ UNCHANGED <<network, tunnel, conf, recon, evaluated, world>>

\* a failing save returns without aborting at the agent
PersistApplying ==
    /\ At("applying")
    /\ \/ Phased("ApplyingEndpoint") /\ Go("mtu")
       \/ Unsaved /\ Go("idle")
    /\ UNCHANGED <<tunnel, conf, recon, evaluated, agent, late, world>>

\* set_managed_gotatun_mtu / _peer_endpoint: the helper first, then the configuration file
HelperSets(field, value, ok) ==
    \/ /\ ok
       /\ tunnel' = [tunnel EXCEPT ![field] = value]
       /\ conf' = [conf EXCEPT ![field] = value]
    \/ /\ ~ok
       /\ May("helper")
       /\ tunnel' \in {tunnel, [tunnel EXCEPT ![field] = value]}
       /\ UNCHANGED conf

SetMtu ==
    /\ At("mtu")
    /\ IF switch.plan.mtu = switch.before.mtu
       THEN Go("endpoint") /\ UNCHANGED <<tunnel, conf>>
       ELSE \E ok \in BOOLEAN : HelperSets("mtu", switch.plan.mtu, ok) /\ Go(IF ok THEN "endpoint" ELSE "abortFailed")
    /\ UNCHANGED <<network, recon, evaluated, agent, late, world>>

SetEndpoint ==
    /\ At("endpoint")
    /\ \E ok \in BOOLEAN : HelperSets("ep", switch.plan.ep, ok) /\ Go(IF ok THEN "validating" ELSE "rollbackFailed")
    /\ UNCHANGED <<network, recon, evaluated, agent, late, world>>

PersistValidating ==
    /\ At("validating")
    /\ \/ Phased("ValidatingTunnel") /\ Go("validate")
       \/ Unsaved /\ Go("rollback")
    /\ UNCHANGED <<tunnel, conf, recon, evaluated, agent, late, world>>

Carries(ep) ==
    /\ agent.up
    /\ ep = Direct \/ ep \in agent.retiring \/ (ep = agent.mem.relay /\ agent.mem.ready)

\* validate_tunnel: the agent confirms the pending profile through the tunnel
Confirmed == Carries(tunnel.ep) /\ Reconciled(agent).mem.pending.profile = Profile

Validate ==
    /\ At("validate")
    /\ \/ /\ Confirmed
          /\ Go("committing")
          /\ UNCHANGED <<network, agent>>
       \/ /\ Phased("RollingBack") \/ Unsaved
          /\ Go("rollbackFailed")
          /\ \/ UNCHANGED agent
             \/ Carries(tunnel.ep) /\ \E r \in reconcile_expired_profile(agent) : agent' = r.agent
    /\ UNCHANGED <<tunnel, conf, recon, evaluated, late, world>>

PersistCommitting ==
    /\ At("committing")
    /\ \/ Phased("Committing") /\ Go("commit")
       \/ Unsaved /\ Go("rollback")
    /\ UNCHANGED <<tunnel, conf, recon, evaluated, agent, late, world>>

CommitProfile ==
    /\ At("commit")
    /\ \E ok \in BOOLEAN :
          /\ Call([op |-> "commit", profile |-> Profile], ok)
          /\ Go(IF ok THEN "record" ELSE "rollback")
    /\ UNCHANGED <<network, tunnel, conf, recon, evaluated, world>>

Completed(n, p) ==
    LET done == [n EXCEPT !.active = p.kind, !.phase = "Completed", !.tid = p.tid, !.profile = p]
    IN  IF p.kind = "turn" THEN [done EXCEPT !.relay = p.ep, !.generation = p.ep] ELSE done

Record ==
    /\ At("record")
    /\ \/ network' = Completed(network, Profile)
       \/ Unsaved
    /\ Go("idle")
    /\ UNCHANGED <<tunnel, conf, recon, evaluated, agent, late, world>>

rollback_tunnelEndpointOnly ==
    /\ tunnel' = [tunnel EXCEPT !.ep = switch.before.ep]
    /\ conf' = [conf EXCEPT !.ep = switch.before.ep]

\* rollback_tunnel: the endpoint, then the MTU, stopping at the first that fails
rollback_tunnel ==
    \/ tunnel' = switch.before /\ conf' = switch.before
    \/ /\ May("helper")
       /\ tunnel' \in {tunnel, [tunnel EXCEPT !.ep = switch.before.ep]}
       /\ conf' \in {conf, [conf EXCEPT !.ep = tunnel'.ep]}

RollBack ==
    /\ switch.pc \in {"rollback", "rollbackFailed"}
    /\ rollback_tunnel
    /\ Go(IF At("rollback") THEN "abort" ELSE "abortFailed")
    /\ UNCHANGED <<network, recon, evaluated, agent, late, world>>

AbortProfile ==
    /\ switch.pc \in {"abort", "abortFailed"}
    /\ \E ok \in BOOLEAN : Call([op |-> "abort", profile |-> Profile], ok)
    /\ IF At("abortFailed") THEN Failed ELSE UNCHANGED network
    /\ Go("idle")
    /\ UNCHANGED <<tunnel, conf, recon, evaluated, world>>

-----------------------------------------------------------------------------
(* The maintenance loop, stop_turn, reconnection and restarts.             *)

ReconcileAsk ==
    /\ recon = IdleRecon
    /\ network.phase = "Committing"
    /\ switch.pc = "idle" \/ May("overlap")
    /\ agent.up
    /\ \E r \in reconcile_expired_profile(agent) :
          /\ agent' = r.agent
          /\ recon' = IF r.ok THEN [pc |-> "asked", tunnel |-> tunnel, profile |-> agent'.mem.committed]
                      ELSE IdleRecon
    /\ UNCHANGED <<network, tunnel, conf, switch, evaluated, late, world>>

Agrees(t, p) == p # NoProfile /\ t.ep = p.ep /\ t.mtu = p.mtu

ReconcileWrite ==
    /\ recon.pc = "asked"
    /\ network' = IF Agrees(recon.tunnel, recon.profile) THEN Completed(network, recon.profile) ELSE network
    /\ recon' = IdleRecon
    /\ UNCHANGED <<tunnel, conf, switch, evaluated, agent, late, world>>

\* turn_status_is_healthy: the record is compared with the agent, not with the tunnel
Healthy ==
    /\ agent.up
    /\ agent.mem.ready
    /\ agent.mem.generation = network.generation
    /\ agent.mem.relay = network.relay

EvaluateRelay ==
    /\ May("evaluate")
    /\ AllocationFree
    /\ agent.up
    /\ \E g \in 1..MaxGeneration :
          /\ ensure_relay_target(Reconciled(agent), g)
          /\ evaluated' = g
    /\ UNCHANGED <<network, tunnel, conf, switch, recon, late, world>>

PersistEvaluation ==
    /\ evaluated # 0
    /\ network' = [network EXCEPT !.relay = evaluated, !.generation = evaluated]
    /\ evaluated' = 0
    /\ UNCHANGED <<tunnel, conf, switch, recon, agent, late, world>>

StopTurn ==
    /\ AllocationFree
    /\ network.active # "turn"
    /\ agent.up
    /\ agent.mem.relay # 0 \/ network.relay # 0
    /\ agent' = stop_turn(agent)
    /\ network' \in {[network EXCEPT !.relay = 0]} \cup (IF May("lost") THEN {network} ELSE {})
    /\ UNCHANGED <<tunnel, conf, switch, recon, evaluated, late, world>>

Reconnect ==
    /\ switch.pc = "idle"
    /\ tunnel # conf
    /\ tunnel' = conf
    /\ UNCHANGED <<network, conf, switch, recon, evaluated, agent, late, world>>

AppDies ==
    /\ May("appDies")
    /\ switch.pc # "idle" \/ evaluated # 0
    /\ Go("idle")
    /\ recon' = IdleRecon
    /\ evaluated' = 0
    /\ UNCHANGED <<network, tunnel, conf, agent, late, world>>

-----------------------------------------------------------------------------
SwitchStep ==
    \/ PrepareDirect \/ PrepareTurn \/ TargetFails \/ AskStatus \/ Prepare \/ PersistApplying
    \/ SetMtu \/ SetEndpoint \/ PersistValidating \/ Validate \/ PersistCommitting
    \/ CommitProfile \/ Record \/ RollBack \/ AbortProfile

Next ==
    \/ \E kind \in {"direct", "turn"}, force \in BOOLEAN : Begin(kind, force)
    \/ SwitchStep
    \/ ReconcileAsk \/ ReconcileWrite
    \/ EvaluateRelay \/ PersistEvaluation
    \/ StopTurn \/ Reconnect \/ AppDies
    \/ LeaseLapses \/ BridgeFails \/ RetireRelay \/ AgentDies \/ AgentStarts \/ LateArrives

Spec == Init /\ [][Next]_vars
Fairness ==
    /\ WF_net(SwitchStep)
    /\ WF_net(ReconcileAsk) /\ WF_net(ReconcileWrite)
    /\ WF_net(PersistEvaluation)
    /\ WF_net(AgentStarts)
FairSpec == Spec /\ Fairness

-----------------------------------------------------------------------------
Quiet == AllocationFree /\ recon = IdleRecon /\ late = NoRequest
Runs(t, p) == t.ep = p.ep /\ t.mtu = p.mtu

(* Whatever dies and whatever save fails, an agent with no transaction     *)
(* open runs its link at the MTU of the profile it committed, and a        *)
(* journaled transaction restores that same MTU: prepare, commit, abort,   *)
(* lease expiry and TurnManager::new never leave a half-applied profile.   *)
LinkFollowsCommit ==
    agent.up =>
        IF agent.mem.pending = NoPending
        THEN agent.mtu = agent.mem.committed.mtu
        ELSE agent.mem.pending.prev = agent.mem.committed.mtu

(* A profile the desktop has recorded as completed was committed in the    *)
(* agent's state file first; revisions are never reused, so the file holds *)
(* that profile or a later one, whichever side restarted in between.       *)
RecordedIsCommitted ==
    LET done == network.profile
        kept == agent.disk.committed
    IN  done.rev <= kept.rev /\ (done.rev = kept.rev => done = kept)

(* A commit that arrives late can find its transaction still open when the *)
(* abort was lost or failed.                                               *)
Overtaken == May("late") /\ world \cap {"lost", "link"} # {}

(* When the record says Completed and nothing is under way, the tunnel,    *)
(* its configuration file and the profile in the agent's state file all    *)
(* agree with the record.                                                  *)
CompletedAgrees ==
    network.phase = "Completed" /\ Quiet /\ ~May("overlap") /\ ~May("helper") /\ ~Overtaken =>
        /\ Runs(tunnel, network.profile)
        /\ conf = tunnel
        /\ network.active = network.profile.kind
        /\ agent.disk.committed = network.profile

(* A switch recorded as Failed has been undone: the tunnel runs what it    *)
(* ran before, and unless the abort itself was lost the agent has released *)
(* the transaction.                                                        *)
FailedIsUndone ==
    network.phase = "Failed" /\ network.tid = switch.tid /\ Quiet /\ ~May("helper") =>
        /\ tunnel = switch.before
        /\ agent.up /\ world \cap {"lost", "late", "agentDies", "agentSave", "link", "appDies", "save"} = {} =>
              agent.mem.pending = NoPending

(* The four together.                                                      *)
SwitchAgrees ==
    LinkFollowsCommit /\ RecordedIsCommitted /\ CompletedAgrees /\ FailedIsUndone
=============================================================================
