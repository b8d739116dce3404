---------------------------- MODULE AgentDeploy ----------------------------
(***************************************************************************)
(* NetworkAgentProvisioner::ensure (services/network_agent.rs): the        *)
(* desktop brings the network agent of one machine to the revision it      *)
(* ships and gives it the control secret both sides authenticate with.     *)
(* The work on the machine is done by root scripts started over SSH; a     *)
(* script goes on when the desktop stops waiting for it.  A release that   *)
(* is packaged with binaries puts them on the machine with the state       *)
(* agent, and the installer takes the network agent it finds there.        *)
(***************************************************************************)
EXTENDS Naturals, FiniteSets, Sequences

CONSTANTS
  Worlds,      \* sets of behaviours explored one at a time
  MaxCalls,    \* calls of ensure
  MaxMixups    \* restarts, cuts, time-outs and reinstallations

VARIABLES
  keyring,   \* the desktop: secret in the vault and in the cache, revision
  machine,   \* the files on the machine
  serving,   \* the agent's process
  attempt,   \* the call of ensure in progress
  scripts,   \* the root scripts running on the machine
  mixups, world

deployVars == << keyring, machine, serving, attempt, scripts, mixups >>
vars == << deployVars, world >>

May(b) == b \in world
NoSecret == 0
NoProcess == [build |-> 0, wrapper |-> 0, secret |-> NoSecret]
NoCall == [pc |-> "idle", answer |-> "none", calls |-> 0]

\* A build is named by the release it belongs to.  Cargo version and
\* DEPLOYMENT_REVISION: two releases of the application may ship the same
\* agent version with another revision.
expected_agent_version(build) == IF May("sameversion") /\ build # 0 THEN 1 ELSE build

(***************************************************************************)
(* The secret: the process' cache, the vault, or a new one.                *)
(***************************************************************************)
load_or_create_control_secret ==
  IF keyring.cache # NoSecret THEN keyring
  ELSE IF keyring.vault # NoSecret THEN [keyring EXCEPT !.cache = keyring.vault]
  ELSE [keyring EXCEPT !.vault = keyring.drawn + 1,
                       !.cache = keyring.drawn + 1, !.drawn = @ + 1]

Script(kind, pc) ==
  [kind |-> kind, pc |-> pc, release |-> keyring.release,
   secret |-> keyring.cache, call |-> attempt.calls]

Busy == attempt.pc # "idle"

\* ensure_state_agent replaces the packaged binaries when they differ from
\* this release's.
Packaged == IF May("packaged") THEN keyring.release ELSE 0

ensure_state_agent ==
  /\ machine.packaged # Packaged
  /\ machine' = [machine EXCEPT !.packaged = Packaged]
  /\ UNCHANGED << keyring, serving, attempt, scripts, mixups >>

(***************************************************************************)
(* ensure: the secret first, then the probe, then the installation.        *)
(* Provisioning deploys the state agent before; the commands that repair a *)
(* connection or start a stream do not.                                    *)
(***************************************************************************)
ensure ==
  /\ ~Busy /\ attempt.calls < MaxCalls
  /\ May("command") \/ machine.packaged = Packaged
  /\ keyring' = load_or_create_control_secret
  /\ attempt' = [pc |-> "secret", answer |-> "none", calls |-> attempt.calls + 1]
  /\ UNCHANGED << machine, serving, scripts, mixups >>

ensure_remote_control_secret ==
  /\ attempt.pc = "secret"
  /\ scripts' = scripts \cup {Script("secret", "compare")}
  /\ attempt' = [attempt EXCEPT !.pc = "installing_secret"]
  /\ UNCHANGED << keyring, machine, serving, mixups >>

\* probe_existing: version, revision and unit are the expected ones; then
\* the service is enabled, which starts it when it does not run.
Matches ==
  /\ expected_agent_version(machine.build) = expected_agent_version(keyring.release)
  /\ machine.revision = keyring.release
  /\ machine.wrapper # 0

Fresh == [build |-> machine.build, wrapper |-> machine.wrapper,
          secret |-> machine.secret]

\* systemctl returns when the process has been started, which may end at once.
Started == {Fresh} \cup (IF May("crash") THEN {NoProcess} ELSE {})

probe_existing ==
  /\ attempt.pc = "probe"
  /\ IF Matches
     THEN /\ serving' \in IF serving = NoProcess THEN Started ELSE {serving}
          /\ machine' = [machine EXCEPT !.enabled = TRUE]
          /\ attempt' = [attempt EXCEPT !.pc = "idle", !.answer = "ok"]
     ELSE /\ attempt' = [attempt EXCEPT !.pc = "bundle"]
          /\ UNCHANGED << machine, serving >>
  /\ UNCHANGED << keyring, scripts, mixups >>

\* The sources are packed, or cannot be.
create_source_bundle ==
  /\ attempt.pc = "bundle"
  /\ \/ attempt' = [attempt EXCEPT !.pc = "upload"]
     \/ May("cut") /\ attempt' = [attempt EXCEPT !.pc = "idle", !.answer = "failed"]
  /\ UNCHANGED << keyring, machine, serving, scripts, mixups >>

\* Checksums, upload, and the installer under a fresh directory.
upload_file ==
  /\ attempt.pc = "upload"
  /\ scripts' = scripts \cup {Script("install", "build")}
  /\ attempt' = [attempt EXCEPT !.pc = "installing"]
  /\ UNCHANGED << keyring, machine, serving, mixups >>

(***************************************************************************)
(* The scripts, one command after the other.                               *)
(***************************************************************************)
Running(kind, pc) == {s \in scripts : s.kind = kind /\ s.pc = pc}
Becomes(s, pc) == scripts' = (scripts \ {s}) \cup {[s EXCEPT !.pc = pc]}

\* The script ends; a call that waits goes on or fails.
Answers(s, good) ==
  /\ scripts' = scripts \ {s}
  /\ attempt' =
       IF s.call # attempt.calls \/ ~Busy THEN attempt
       ELSE IF ~good THEN [attempt EXCEPT !.pc = "idle", !.answer = "failed"]
       ELSE IF s.kind = "secret" THEN [attempt EXCEPT !.pc = "probe"]
       ELSE [attempt EXCEPT !.pc = "idle", !.answer = "ok"]

\* cmp, and install when they differ.
SecretCompare ==
  \E s \in Running("secret", "compare") :
    /\ IF machine.secret = s.secret
       THEN Answers(s, TRUE) /\ UNCHANGED machine
       ELSE /\ machine' = [machine EXCEPT !.secret = s.secret]
            /\ Becomes(s, "restart")
            /\ UNCHANGED attempt
    /\ UNCHANGED << keyring, serving, mixups >>

SecretRestart ==
  \E s \in Running("secret", "restart") :
    /\ serving' \in IF serving = NoProcess THEN {NoProcess} ELSE Started
    /\ Answers(s, TRUE)
    /\ UNCHANGED << keyring, machine, mixups >>

\* The packaged binary if the machine has one, otherwise a build from the
\* uploaded sources; a failed build leaves everything as it is.
InstallBuild ==
  \E s \in Running("install", "build") :
    /\ \/ /\ machine' = [machine EXCEPT !.build =
                           IF machine.packaged # 0 THEN machine.packaged ELSE s.release]
          /\ Becomes(s, "wrapper") /\ UNCHANGED << attempt, mixups >>
       \/ /\ May("cut") /\ mixups < MaxMixups
          /\ mixups' = mixups + 1
          /\ Answers(s, FALSE) /\ UNCHANGED machine
    /\ UNCHANGED << keyring, serving >>

\* Wrapper and unit, then the revision.
InstallWrapper ==
  \E s \in Running("install", "wrapper") :
    /\ machine' = [machine EXCEPT !.wrapper = s.release]
    /\ Becomes(s, "revision")
    /\ UNCHANGED << keyring, serving, attempt, mixups >>

InstallRevision ==
  \E s \in Running("install", "revision") :
    /\ machine' = [machine EXCEPT !.revision = s.release]
    /\ Becomes(s, "reload")
    /\ UNCHANGED << keyring, serving, attempt, mixups >>

\* Mutation: an installation that enables the service and leaves what runs.
EnablesOnly ==
  \E s \in Running("install", "reload") :
    /\ machine' = [machine EXCEPT !.enabled = TRUE]
    /\ Answers(s, TRUE)
    /\ UNCHANGED << keyring, serving, mixups >>

\* daemon-reload, enable and restart; the installer fails if the service is
\* not active then.
InstallRestart ==
  \E s \in Running("install", "reload") :
    /\ machine' = [machine EXCEPT !.enabled = TRUE]
    /\ serving' \in Started
    /\ Answers(s, serving' # NoProcess)
    /\ UNCHANGED << keyring, mixups >>

ScriptStep ==
  \/ SecretCompare \/ SecretRestart \/ InstallBuild \/ InstallWrapper
  \/ InstallRevision \/ InstallRestart

(***************************************************************************)
(* What interferes.                                                        *)
(***************************************************************************)
Mixup == mixups < MaxMixups /\ mixups' = mixups + 1

\* run_root_script or upload_file gives up: the script, if it was started,
\* goes on.
GivesUp ==
  /\ May("timeout") /\ Busy /\ Mixup
  /\ attempt' = [attempt EXCEPT !.pc = "idle", !.answer = "failed"]
  /\ UNCHANGED << keyring, machine, serving, scripts >>

\* A script dies between two commands.
Killed ==
  /\ May("killed") /\ Mixup
  /\ \E s \in scripts : Answers(s, FALSE)
  /\ UNCHANGED << keyring, machine, serving >>

\* The machine restarts: what was enabled starts with the files as they are.
Reboot ==
  /\ May("reboot") /\ Mixup
  /\ serving' = IF machine.enabled THEN Fresh ELSE NoProcess
  /\ scripts' = {}
  /\ attempt' = IF Busy THEN [attempt EXCEPT !.pc = "idle", !.answer = "failed"]
                ELSE attempt
  /\ UNCHANGED << keyring, machine >>

\* The agent's process dies and systemd starts it again.
AgentRestarts ==
  /\ May("reboot") /\ Mixup /\ serving # NoProcess
  /\ serving' = Fresh
  /\ UNCHANGED << keyring, machine, attempt, scripts >>

\* The application is installed again, or updated, and starts anew; a script
\* it was waiting for goes on.
Restarted(k) ==
  /\ Busy => May("timeout")
  /\ keyring' = [k EXCEPT !.cache = NoSecret]
  /\ attempt' = [attempt EXCEPT !.pc = "idle", !.answer = "none"]
  /\ UNCHANGED << machine, serving, scripts >>

Reinstall ==
  May("reinstall") /\ Mixup /\ Restarted([keyring EXCEPT !.vault = NoSecret])

Update ==
  /\ May("update") /\ keyring.release = 1 /\ Mixup
  /\ Restarted([keyring EXCEPT !.release = 2])

Init ==
  /\ world \in Worlds
  /\ keyring = [vault |-> NoSecret, cache |-> NoSecret, drawn |-> 0,
                release |-> 1]
  /\ machine = [build |-> 0, packaged |-> 0, wrapper |-> 0, revision |-> 0,
                secret |-> NoSecret, enabled |-> FALSE]
  /\ serving = NoProcess
  /\ attempt = NoCall
  /\ scripts = {}
  /\ mixups = 0

Next ==
  /\ \/ ensure_state_agent
     \/ ensure \/ ensure_remote_control_secret \/ probe_existing
     \/ create_source_bundle \/ upload_file \/ ScriptStep
     \/ GivesUp \/ Killed \/ Reboot \/ AgentRestarts \/ Reinstall \/ Update
  /\ UNCHANGED world

Spec == Init /\ [][Next]_vars

\* Scripts run to their end; calls are made as the user goes on.
DeployFairness == WF_deployVars(ScriptStep /\ UNCHANGED world)
FairSpec == Spec /\ DeployFairness

\* When ensure reports success, the agent that runs has the wrapper of this
\* release and the secret this desktop signs with, whatever restarted in
\* between, and it is the build of this release unless a command met the
\* packaged binaries of another one: true as long as no script is killed
\* half-way or outlives its call.  An agent that ends as it starts leaves
\* nothing running, and only the installer looks.
ReadyMeansCurrent ==
  attempt.answer = "ok" /\ world \cap {"killed", "timeout"} = {} =>
    \/ May("crash") /\ serving = NoProcess
    \/ /\ serving.wrapper = keyring.release
       /\ serving.secret = keyring.cache
       /\ {"packaged", "command"} \subseteq world \/ serving.build = keyring.release

=============================================================================
