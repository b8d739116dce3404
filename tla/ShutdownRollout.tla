-------------------------- MODULE ShutdownRollout ---------------------------
(***************************************************************************)
(* The desktop's half of automatic shutdown: a settings command applies    *)
(* the new settings to every provisioned machine, one machine at a time,   *)
(* and only then saves them; on the first failure it disables every        *)
(* machine.  One configuration is a check of the prerequisites, the        *)
(* installation of both agents, the staging of the files and one script    *)
(* that replaces the capability, the configuration and the process.        *)
(*                                                                         *)
(* Provisioning configures its new machine disabled, and a status query    *)
(* copies what one machine says into the saved record.  One process-wide   *)
(* lock covers one configuration or query, not a whole rollout.  A script  *)
(* may outlive the SSH call that started it.                               *)
(***************************************************************************)
EXTENDS Naturals, FiniteSets, FiniteSetsExt

CONSTANTS Machines, Limits, MaxCommands, MaxSnags,
          Worlds   \* which of "snag", "disk", "late", "overlap", "crash", "poll", "provision",
                   \* "vanish", "account"

VARIABLES
    fleet,    \* machine -> what is on it
    members,  \* provisioned_servers
    account,  \* an active storage profile with its credentials, and a Vast key
    saved,    \* state.auto_shutdown
    desk,     \* task -> a command of the app in progress
    turn,     \* the task that holds DEPLOYMENT_CONFIG_LOCK
    late,     \* scripts whose SSH call is over
    told,     \* what the last settings command that did anything said
    issued, snags, world

rolled == <<fleet, members, account, saved, desk, turn, late, told, issued, snags>>
vars == <<rolled, world>>

May(b) == b \in world
Tasks == {"save", "other", "poll", "provision"}
None == "none"
Off == [enabled |-> FALSE, limit |-> Min(Limits)]
TooFew == 0
Wants == {Off} \cup [enabled : {TRUE}, limit : Limits \cup {TooFew}]
Disabled(w) == [w EXCEPT !.enabled = FALSE]

Bare == [alive |-> TRUE, agent |-> "none", up |-> FALSE, staged |-> "nothing",
         capability |-> FALSE, config |-> Off, runs |-> Off]
Configured == [Bare EXCEPT !.agent = "current", !.up = TRUE]
Idle == [pc |-> "idle"]
Task(pc, want, mode, ids) ==
    [pc |-> pc, want |-> want, mode |-> mode, ids |-> ids, left |-> ids, failed |-> {}]
Status(w) == IF w.enabled THEN "monitoring" ELSE "disabled"

Init ==
    /\ world \in Worlds
    /\ members = IF May("provision") THEN {Min(Machines)} ELSE Machines
    /\ fleet = [m \in Machines |-> IF m \in members THEN Configured ELSE Bare]
    /\ account = TRUE
    /\ saved = [settings |-> Off, status |-> "never_run"]
    /\ desk = [t \in Tasks |-> Idle]
    /\ turn = None
    /\ late = {}
    /\ told = "nothing"
    /\ issued = 0 /\ snags = 0

Snag == snags < (IF May("late") THEN 1 ELSE MaxSnags) /\ snags' = snags + 1
At(t) == Min(desk[t].left)
Doing(t, pc) == desk[t].pc = pc
Goto(t, pc) == desk' = [desk EXCEPT ![t].pc = pc]
-----------------------------------------------------------------------------
(* The settings command *)

Save(t, w) ==
    /\ Doing(t, "idle")
    /\ t = "save" \/ (t = "other" /\ May("overlap"))
    /\ issued < MaxCommands
    /\ issued' = issued + 1
    /\ desk' = [desk EXCEPT ![t] = Task("refresh", w, "apply", {})]
    /\ UNCHANGED <<fleet, members, account, saved, turn, late, told, snags, world>>

Ends(t, word) ==
    /\ desk' = [desk EXCEPT ![t] = Idle]
    /\ told' = word

\* Enabling lists the instances first and forgets the machines that are gone.
Refresh(t) ==
    /\ Doing(t, "refresh")
    /\ \/ /\ members' = IF desk[t].want.enabled /\ account
                        THEN {m \in members : fleet[m].alive} ELSE members
          /\ Goto(t, "validate")
          /\ UNCHANGED <<told, snags>>
       \/ /\ May("snag") /\ desk[t].want.enabled /\ account
          /\ Snag /\ Ends(t, told)
          /\ UNCHANGED members
    /\ UNCHANGED <<fleet, account, saved, turn, late, issued, world>>

\* The range checks on the timeout and on the number of applications.
from_settings(w) == w.limit # TooFew
validate_auto_shutdown_request(w) == from_settings(w) /\ (w.enabled => account /\ members # {})

Validate(t) ==
    /\ Doing(t, "validate")
    /\ IF validate_auto_shutdown_request(desk[t].want)
       THEN /\ desk' = [desk EXCEPT ![t] = Task(IF members = {} THEN "persist" ELSE "lock", @.want,
                                                "apply", members)]
            /\ UNCHANGED told
       ELSE Ends(t, told)
    /\ UNCHANGED <<fleet, members, account, saved, turn, late, issued, snags, world>>

After(d) == [d EXCEPT !.pc = IF d.left = {} THEN "persist" ELSE "lock"]
\* fail_safe_disable_after_settings_error starts over with every machine.
FallBack(d) ==
    After([d EXCEPT !.mode = "undo", !.want = Disabled(@), !.left = d.ids, !.failed = {}])
OneFailed(d) == After([d EXCEPT !.left = @ \ {Min(@)}, !.failed = @ \cup {Min(d.left)}])
OneDone(d) == After([d EXCEPT !.left = @ \ {Min(@)}])
Failed(d) == CASE d.mode = "apply" -> FallBack(d)
               [] d.mode = "undo" -> OneFailed(d)
               [] OTHER -> Idle

\* The configuration of one machine returns an error.
Fail(t) == desk' = [desk EXCEPT ![t] = Failed(@)] /\ turn' = None
Ok(t) ==
    /\ desk' = [desk EXCEPT ![t] = IF @.mode = "provision" THEN Idle ELSE OneDone(@)]
    /\ turn' = None

Saved(d) == [settings |-> d.want, status |-> Status(d.want)]
FellBack(d) == [settings |-> d.want,
                status |-> IF d.failed = {} THEN "disabled_after_error" ELSE "disable_pending"]

PersistSettings(t) ==
    /\ Doing(t, "persist") /\ desk[t].mode = "apply"
    /\ \/ saved' = Saved(desk[t]) /\ Ends(t, "ok") /\ UNCHANGED snags
       \/ /\ May("disk") /\ Snag
          /\ desk' = [desk EXCEPT ![t] = FallBack(@)]
          /\ UNCHANGED <<saved, told>>
    /\ UNCHANGED <<fleet, members, account, turn, late, issued, world>>

PersistFallback(t) ==
    /\ Doing(t, "persist") /\ desk[t].mode = "undo"
    /\ \/ saved' = FellBack(desk[t]) /\ UNCHANGED snags
       \/ May("disk") /\ Snag /\ UNCHANGED saved
    /\ Ends(t, IF desk[t].failed = {} THEN "disabled" ELSE "unconfirmed")
    /\ UNCHANGED <<fleet, members, account, turn, late, issued, world>>
-----------------------------------------------------------------------------
(* configure_for_instance_settings, for the machine At(t) *)

Prerequisites(t) ==
    At(t) \in members /\ (desk[t].want.enabled => account) /\ from_settings(desk[t].want)

Lock(t) ==
    /\ Doing(t, "lock") /\ turn = None
    /\ IF Prerequisites(t) THEN Goto(t, "agents") /\ turn' = t
       ELSE Fail(t)
    /\ UNCHANGED <<fleet, members, account, saved, late, told, issued, snags, world>>

On(m, changed) == fleet' = [fleet EXCEPT ![m] = changed]

\* ensure_state_agent, then probe_existing, which starts a service that is down.
EnsureAgents(t) ==
    /\ Doing(t, "agents")
    /\ LET m == At(t) IN
       IF ~fleet[m].alive THEN Fail(t) /\ UNCHANGED fleet
       ELSE IF fleet[m].agent = "current"
            THEN /\ Goto(t, "capability")
                 /\ On(m, [fleet[m] EXCEPT !.up = TRUE, !.runs = IF fleet[m].up THEN @ ELSE fleet[m].config])
                 /\ UNCHANGED turn
            ELSE Goto(t, "install") /\ UNCHANGED <<fleet, turn>>
    /\ UNCHANGED <<members, account, saved, late, told, issued, snags, world>>

\* The installer replaces the binary, starts it, and prints its marker.
Install(t) ==
    /\ Doing(t, "install")
    /\ On(At(t), [fleet[At(t)] EXCEPT !.agent = "current", !.up = TRUE, !.runs = fleet[At(t)].config])
    /\ Goto(t, "capability")
    /\ UNCHANGED <<members, account, saved, turn, late, told, issued, snags, world>>

\* The profile and the key are read again for the capability.
PrepareCapability(t) ==
    /\ Doing(t, "capability")
    /\ IF desk[t].want.enabled /\ ~account THEN Fail(t)
       ELSE Goto(t, "upload") /\ UNCHANGED turn
    /\ UNCHANGED <<fleet, members, account, saved, late, told, issued, snags, world>>

Stage(t, pc, what, next) ==
    /\ Doing(t, pc)
    /\ On(At(t), [fleet[At(t)] EXCEPT !.staged = what])
    /\ Goto(t, next)
    /\ UNCHANGED <<members, account, saved, turn, late, told, issued, snags, world>>

UploadConfig(t) == Stage(t, "upload", "config", "directory")
CreateStaging(t) ==
    Stage(t, "directory", "directory", IF desk[t].want.enabled THEN "stream" ELSE "swap capability")
StreamCapability(t) == Stage(t, "stream", "both", "swap capability")

Script(pc, h, w) ==
    CASE pc = "swap capability" -> [h EXCEPT !.capability = w.enabled]
      [] pc = "swap config" -> [h EXCEPT !.config = w]
      [] pc = "restart" -> [h EXCEPT !.runs = h.config, !.up = TRUE]
      [] OTHER -> h
Following(pc) == CASE pc = "swap capability" -> "swap config"
                   [] pc = "swap config" -> "restart"
                   [] OTHER -> "ready"
ScriptSteps == {"swap capability", "swap config", "restart"}

RunScript(t) ==
    /\ desk[t].pc \in ScriptSteps
    /\ On(At(t), Script(desk[t].pc, fleet[At(t)], desk[t].want))
    /\ Goto(t, Following(desk[t].pc))
    /\ UNCHANGED <<members, account, saved, turn, late, told, issued, snags, world>>

\* The reload and health requests of the script, until the agent says what is expected.
Ready(h, w) == h.up /\ h.config.enabled = w.enabled

Readiness(t) ==
    /\ Doing(t, "ready")
    /\ LET m == At(t)  h == [fleet[m] EXCEPT !.runs = fleet[m].config, !.staged = "nothing"] IN
       /\ On(m, h)
       /\ IF Ready(h, desk[t].want) THEN Ok(t) ELSE Fail(t)
    /\ UNCHANGED <<members, account, saved, late, told, issued, snags, world>>

\* A call fails: its staging is cleaned and its script is over, or goes on by itself.
Remote == {"agents", "install", "capability", "upload", "directory", "stream", "ready"} \cup ScriptSteps
CallFails(t) ==
    /\ May("snag") /\ desk[t].pc \in Remote /\ Snag
    /\ Fail(t)
    /\ On(At(t), [fleet[At(t)] EXCEPT !.staged = "nothing"])
    /\ late' = IF May("late") /\ desk[t].pc \in ScriptSteps
               THEN late \cup {[machine |-> At(t), pc |-> desk[t].pc, want |-> desk[t].want]}
               ELSE late
    /\ UNCHANGED <<members, account, saved, told, issued, world>>

LateScript(s) ==
    /\ On(s.machine, Script(s.pc, fleet[s.machine], s.want))
    /\ late' = (late \ {s}) \cup
               (IF Following(s.pc) = "ready" THEN {} ELSE {[s EXCEPT !.pc = Following(@)]})
    /\ UNCHANGED <<members, account, saved, desk, turn, told, issued, snags, world>>
-----------------------------------------------------------------------------
(* The other users of the configuration *)

\* provision_lifecycle_agent: the new machine is a member before its agents are installed.
AddMachine(m) ==
    /\ May("provision") /\ Doing("provision", "idle") /\ m \notin members
    /\ members' = members \cup {m}
    /\ desk' = [desk EXCEPT !["provision"] = Task("lock", Off, "provision", {m})]
    /\ UNCHANGED <<fleet, account, saved, turn, late, told, issued, snags, world>>

PollStatus(m) ==
    /\ May("poll") /\ Doing("poll", "idle") /\ turn = None
    /\ m \in members /\ fleet[m].up /\ fleet[m].alive
    /\ desk' = [desk EXCEPT !["poll"] = [pc |-> "got", status |-> Status(fleet[m].runs)]]
    /\ UNCHANGED <<fleet, members, account, saved, turn, late, told, issued, snags, world>>

\* The answer of one machine becomes the saved status.
StoreStatus ==
    /\ Doing("poll", "got")
    /\ saved' = [saved EXCEPT !.status = desk["poll"].status]
    /\ desk' = [desk EXCEPT !["poll"] = Idle]
    /\ UNCHANGED <<fleet, members, account, turn, late, told, issued, snags, world>>

Vanish(m) ==
    /\ May("vanish") /\ fleet[m].alive /\ Snag
    /\ On(m, [fleet[m] EXCEPT !.alive = FALSE, !.up = FALSE])
    /\ UNCHANGED <<members, account, saved, desk, turn, late, told, issued, world>>

\* The agent's unit restarts it.
AgentRestarts(m) ==
    /\ May("snag") /\ fleet[m].alive /\ fleet[m].agent = "current"
    /\ fleet[m].runs # fleet[m].config
    /\ On(m, [fleet[m] EXCEPT !.runs = fleet[m].config])
    /\ UNCHANGED <<members, account, saved, desk, turn, late, told, issued, snags, world>>

LoseAccount ==
    /\ May("account") /\ account
    /\ account' = FALSE
    /\ UNCHANGED <<fleet, members, saved, desk, turn, late, told, issued, snags, world>>

Crash ==
    /\ May("crash") /\ \E t \in Tasks : desk[t] # Idle
    /\ Snag
    /\ desk' = [t \in Tasks |-> Idle] /\ turn' = None /\ told' = "nothing"
    /\ UNCHANGED <<fleet, members, account, saved, late, issued, world>>

Step(t) ==
    \/ Refresh(t) \/ Validate(t) \/ PersistSettings(t) \/ PersistFallback(t)
    \/ Lock(t) \/ EnsureAgents(t) \/ Install(t) \/ PrepareCapability(t)
    \/ UploadConfig(t) \/ CreateStaging(t) \/ StreamCapability(t) \/ RunScript(t) \/ Readiness(t)

Next ==
    \/ \E t \in Tasks : Step(t) \/ CallFails(t)
    \/ \E t \in {"save", "other"}, w \in Wants : Save(t, w)
    \/ \E s \in late : LateScript(s)
    \/ \E m \in Machines : AddMachine(m) \/ PollStatus(m) \/ Vanish(m) \/ AgentRestarts(m)
    \/ StoreStatus \/ LoseAccount \/ Crash

Spec == Init /\ [][Next]_vars
\* Every remote call has a time limit and the lock is fair; the runtime polls the tasks.
FairSpec == Spec /\ \A t \in Tasks : WF_rolled(Step(t))
-----------------------------------------------------------------------------
Settled == (\A t \in Tasks : desk[t] = Idle) /\ late = {}
Armed(m) == fleet[m].alive /\ (fleet[m].runs.enabled \/ fleet[m].config.enabled)

(* Without a crash, an overlapping command or a script that outlives its   *)
(* call: a settings command that succeeded left every machine it was for   *)
(* running exactly the saved settings, with a capability if and only if it *)
(* is enabled; and whenever a machine is left able to shut itself down     *)
(* while the saved settings say disabled, the user was told that disabling *)
(* could not be confirmed.                                                 *)
NeverSilentlyArmed ==
    world \cap {"late", "overlap", "crash"} = {} /\ Settled =>
       /\ told = "ok" => \A m \in members :
             fleet[m].alive /\ (May("provision") => m = Min(Machines)) =>
                /\ fleet[m].runs = saved.settings
                /\ fleet[m].capability = saved.settings.enabled
       /\ ~saved.settings.enabled /\ (\E m \in members : Armed(m)) => told = "unconfirmed"
=============================================================================
