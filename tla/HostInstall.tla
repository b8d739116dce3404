----------------------------- MODULE HostInstall -----------------------------
(* The streaming host of an instance, as the desktop sets it up and keeps it  *)
(* over SSH (services/nvidia_headless.rs, sunshine.rs, remote_display.rs,     *)
(* reboot_helper.rs, package_manager.rs): NVIDIA and Sunshine installation,   *)
(* the display-mode script with its rollback, and the reboot helper.          *)
(*                                                                            *)
(* host is what is on the machine: what its disk holds (which survives a      *)
(* reboot) and what runs on it now.  A remote command is one step of the      *)
(* desktop's operation; the display-mode script, which has a rollback, runs   *)
(* on the host in steps of its own.  Modes and credentials are numbers; 0 is  *)
(* "none" or "not running".                                                   *)
EXTENDS Integers, FiniteSets

CONSTANTS Modes,      \* display modes (positive numbers)
          Passwords,  \* Sunshine web credentials (positive numbers)
          MaxOps,     \* operations the user starts
          MaxCrashes, \* crashes of the machine, or of its Xorg
          Worlds      \* which of the behaviours below a behaviour may show:
                      \*   "mismatch"  an apt upgrade leaves the kernel driver behind
                      \*   "connect"   an SSH connection may fail
                      \*   "crash"     the machine may crash and boot again
                      \*   "script"    a step of the display script may fail
                      \*   "rough"     a lost reply leaves its script running beside
                      \*               later operations, and Xorg may crash alone

VARIABLES host,     \* the machine
          client,   \* the desktop's provisioning, display or reboot operation
          script,   \* the display script on the host: its step and its backup
          claim,    \* mode and credentials the last successful operation reported,
                    \* and the record's marker of the completed Sunshine step
          ops, crashes, world

hostVars == <<host, client, script, claim, ops, crashes>>

May(b) == b \in world

Idle == [op |-> "idle", pc |-> "idle", profile |-> 0, mode |-> 0, password |-> 0]
NoScript == [pc |-> "none", profile |-> 0, mode |-> 0, edid |-> 0, env |-> 0, modeUnit |-> FALSE]

TypeOK ==
    /\ host \in [up : BOOLEAN, driver : {"ok", "mismatch"}, packages : BOOLEAN,
                 server : BOOLEAN,
                 edid : Modes \union {0}, conf : Modes \union {0},
                 env : Modes \union {0}, modeUnit : BOOLEAN, modeOn : BOOLEAN,
                 sunUnit : {"none", "masked", "disabled", "enabled"},
                 disk : Passwords \union {0}, rebooting : BOOLEAN,
                 x : Modes \union {0}, sun : Passwords \union {0}]
    /\ client.op \in {"idle", "install", "apply", "reboot"}
    /\ claim \in [mode : Modes \union {0}, password : Passwords \union {0}, marked : BOOLEAN]

Init ==
    /\ host = [up |-> TRUE, driver |-> "ok", packages |-> FALSE, server |-> FALSE, edid |-> 0,
               conf |-> 0, env |-> 0, modeUnit |-> FALSE, modeOn |-> FALSE,
               sunUnit |-> "none", disk |-> 0, rebooting |-> FALSE, x |-> 0, sun |-> 0]
    /\ client = Idle
    /\ script = NoScript
    /\ claim = [mode |-> 0, password |-> 0, marked |-> FALSE]
    /\ ops = 0 /\ crashes = 0
    /\ world \in Worlds

------------------------------------------------------------------------------
(* systemd on the host                                                        *)

\* noland-xorg starts with the mode of the configuration it was installed with,
\* then noland-display-mode, when there is one, applies /etc/noland/display.env.
XorgStarted(h) == [h EXCEPT !.x = h.conf, !.modeOn = FALSE]
ModeApplied(h) == IF h.modeUnit /\ h.x # 0 THEN [h EXCEPT !.x = h.env, !.modeOn = TRUE] ELSE h

\* Stopping Xorg stops the units that require it.
XorgRestarted(h) == ModeApplied(XorgStarted([h EXCEPT !.sun = 0]))

\* sunshine.service requires noland-xorg (and the drop-in noland-display-mode):
\* starting it starts them, and it reads its credentials from the disk.
SunshineRestarted(h) ==
    LET d == IF h.x = 0 THEN XorgRestarted(h)
             ELSE IF h.modeOn THEN h ELSE ModeApplied(h)
    IN  [d EXCEPT !.sun = IF d.x # 0 /\ h.server /\ h.sunUnit \in {"disabled", "enabled"}
                          THEN h.disk ELSE 0]

Booted(h) ==
    LET d == ModeApplied(XorgStarted([h EXCEPT !.up = TRUE, !.driver = "ok"]))
    IN  IF h.sunUnit = "enabled" THEN SunshineRestarted(d) ELSE d

PoweredOff(h) == [h EXCEPT !.up = FALSE, !.rebooting = FALSE,
                         !.x = 0, !.modeOn = FALSE, !.sun = 0]

------------------------------------------------------------------------------
(* Operations of the desktop                                                  *)

\* What a failed operation still vouches for.  An installation may stop
\* anywhere; a reboot changes nothing that is installed.
Vouched ==
    CASE client.op = "install" -> [claim EXCEPT !.mode = 0, !.password = 0]
      [] client.op = "apply"   -> [claim EXCEPT !.mode = 0]
      [] OTHER                 -> claim

Fail == client' = Idle /\ claim' = Vouched
Report(c) == client' = Idle /\ claim' = c
Goto(pc) == client' = [client EXCEPT !.pc = pc] /\ UNCHANGED claim

BeginInstall ==
    /\ client = Idle /\ ops < MaxOps
    /\ ops' = ops + 1
    /\ \E m \in Modes, p \in Passwords :
          client' = [op |-> "install", pc |-> "gpu", profile |-> m, mode |-> m, password |-> p]
    /\ UNCHANGED <<host, script, claim, crashes, world>>

BeginApply ==
    /\ client = Idle /\ ops < MaxOps
    /\ script.pc = "none" \/ May("rough")
    /\ ops' = ops + 1
    /\ \E p, m \in Modes :
          client' = [op |-> "apply", pc |-> "send", profile |-> p, mode |-> m, password |-> 0]
    /\ UNCHANGED <<host, script, claim, crashes, world>>

BeginReboot ==
    /\ client = Idle /\ ops < MaxOps
    /\ ops' = ops + 1
    /\ client' = [Idle EXCEPT !.op = "reboot", !.pc = "preflight"]
    /\ UNCHANGED <<host, script, claim, crashes, world>>

\* A connection that fails, or a host that is down, ends the operation; only
\* the reboot helper's waits go on.
LoseConnection ==
    /\ client.op # "idle"
    /\ client.pc \notin {"wait", "disconnect", "reconnect", "gpuReboot"}
    /\ May("connect") \/ ~host.up
    /\ client' = Idle
    /\ claim' = IF client.op = "apply" THEN claim ELSE Vouched
    /\ UNCHANGED <<host, script, ops, crashes, world>>

At(op, pc) == client.op = op /\ client.pc = pc /\ host.up

\* NvidiaHeadlessService::setup_and_validate, first the packages: the dpkg lock,
\* apt-get update and install.  An upgrade may leave the kernel's driver behind.
InstallGpuPackages ==
    /\ At("install", "gpu")
    /\ \E d \in IF May("mismatch") /\ ~host.packages THEN {"ok", "mismatch"} ELSE {host.driver} :
          host' = [host EXCEPT !.packages = TRUE, !.driver = d]
    /\ Goto("gpuCheck")
    /\ UNCHANGED <<script, ops, crashes, world>>

\* Then nvidia-smi: a driver mismatch reboots the machine once and tries again.
InstallGpu ==
    /\ At("install", "gpuCheck") \/ At("install", "gpuAgain")
    /\ LET reboot == host.driver = "mismatch" /\ client.pc = "gpuCheck"
       IN  /\ host' = [host EXCEPT !.rebooting = @ \/ reboot]
           /\ IF host.driver = "ok" THEN Goto("resume")
              ELSE IF reboot THEN Goto("gpuReboot") ELSE Fail
    /\ UNCHANGED <<script, ops, crashes, world>>

InstallGpuRebooted ==
    /\ At("install", "gpuReboot") /\ ~host.rebooting
    /\ Goto("gpuAgain")
    /\ UNCHANGED <<host, script, ops, crashes, world>>

\* A completed Sunshine step is skipped when one process, the web page and the
\* RTSP port answer; otherwise everything is installed again.
InstallResume ==
    /\ At("install", "resume")
    /\ IF claim.marked /\ host.sun # 0 THEN Report(claim) ELSE Goto("packages")
    /\ UNCHANGED <<host, script, ops, crashes, world>>

\* The support packages and the Sunshine package, under the dpkg lock; without
\* the lock the installation ends.
InstallPackages ==
    /\ At("install", "packages")
    /\ \/ host' = [host EXCEPT !.server = TRUE] /\ Goto("cleanup")
       \/ May("connect") /\ UNCHANGED host /\ Fail
    /\ UNCHANGED <<script, ops, crashes, world>>

\* cleanup_packaged_sunshine_launchers: stop, disable, mask, kill.
CleanedUp(h) == [h EXCEPT !.sun = 0, !.sunUnit = "masked"]

InstallCleanup ==
    /\ At("install", "cleanup")
    /\ host' = CleanedUp(host)
    /\ Goto("display")
    /\ UNCHANGED <<script, ops, crashes, world>>

\* The script of setup_headless_display: EDID, Xorg configuration and unit of a
\* virtual display, which it starts in the wanted mode.
VirtualDisplay(h) ==
    [XorgStarted([h EXCEPT !.edid = client.profile, !.conf = client.mode]) EXCEPT !.sun = 0]

\* setup_headless_display: any display that answers counts as a real one and is
\* used as it is; only a headless machine gets a virtual one.
InstallDisplay ==
    /\ At("install", "display")
    /\ host' = IF host.x # 0 THEN host ELSE VirtualDisplay(host)
    /\ Goto("output")
    /\ UNCHANGED <<script, ops, crashes, world>>

\* The Xorg check, and the detection of the capture backend and the output.
InstallOutput ==
    /\ At("install", "output")
    /\ IF host.x = 0 THEN Fail ELSE Goto("config")
    /\ UNCHANGED <<host, script, ops, crashes, world>>

\* The second cleanup, the configuration, and the user's access to the display.
InstallConfig ==
    /\ At("install", "config")
    /\ host' = CleanedUp(host)
    /\ IF host.x = 0 THEN Fail ELSE Goto("credentials")
    /\ UNCHANGED <<script, ops, crashes, world>>

\* bootstrap_web_credentials: "--creds writes to disk; the running service only
\* reloads credentials on restart".
InstallCredentials ==
    /\ At("install", "credentials")
    /\ host' = [host EXCEPT !.disk = client.password]
    /\ Goto("service")
    /\ UNCHANGED <<script, ops, crashes, world>>

\* The service transaction: unmask, write the unit, enable, restart.
InstallService ==
    /\ At("install", "service")
    /\ host' = SunshineRestarted([host EXCEPT !.sunUnit = "enabled"])
    /\ Goto("verify")
    /\ UNCHANGED <<script, ops, crashes, world>>

\* verify_web_credentials: the running service answers with these credentials.
CredentialsAccepted == host.sun = client.password

\* The process, the web page, the RTSP port and the credentials.
InstallVerify ==
    /\ At("install", "verify")
    /\ IF host.sun # 0 /\ CredentialsAccepted THEN Goto("validate") ELSE Fail
    /\ UNCHANGED <<host, script, ops, crashes, world>>

ValidateProcessOnly ==
    /\ At("install", "validate")
    /\ IF host.sun # 0
       THEN Report([mode |-> client.mode, password |-> client.password, marked |-> TRUE]) ELSE Fail
    /\ UNCHANGED <<host, script, ops, crashes, world>>

\* validate: the process, the display mode in use and the web page.
InstallValidate ==
    /\ At("install", "validate")
    /\ IF host.sun # 0 /\ host.x = client.mode
       THEN Report([mode |-> client.mode, password |-> client.password, marked |-> TRUE]) ELSE Fail
    /\ UNCHANGED <<host, script, ops, crashes, world>>

------------------------------------------------------------------------------
(* The display-mode script (RemoteDisplayService::apply)                      *)

ApplySend ==
    /\ At("apply", "send")
    /\ IF script.pc = "none"
       THEN /\ script' = [pc |-> "edid", profile |-> client.profile, mode |-> client.mode,
                          edid |-> host.edid, env |-> host.env, modeUnit |-> host.modeUnit]
            /\ Goto("wait")
       ELSE UNCHANGED script /\ Fail
    /\ UNCHANGED <<host, ops, crashes, world>>

\* Both replies of the script: NOLAND_DISPLAY_APPLIED, then the status must show
\* the mode; or an exit code after the rollback.
ApplyAnswer(ok) ==
    /\ script' = NoScript
    /\ IF client.op = "apply" /\ client.pc = "wait"
       THEN IF ok /\ host'.x = client.mode
            THEN Report([claim EXCEPT !.mode = client.mode])
            ELSE client' = Idle /\ claim' = IF ok THEN Vouched ELSE claim
       ELSE UNCHANGED <<client, claim>>

ScriptGoto(pc) == script' = [script EXCEPT !.pc = pc] /\ UNCHANGED <<client, claim>>
Running(pc) == script.pc = pc /\ host.up

\* A profile that changed replaces edid.bin and restarts Xorg; otherwise Xorg is
\* only started.  Without noland-xorg the script gives up.
ScriptEdid ==
    /\ Running("edid")
    /\ LET h == [host EXCEPT !.edid = script.profile]
       IN  \/ /\ host.conf # 0
              /\ host' = IF host.edid # script.profile THEN XorgRestarted(h)
                         ELSE IF host.x = 0 THEN XorgRestarted(h) ELSE h
              /\ ScriptGoto("select")
           \/ /\ host.conf = 0 \/ May("script")
              /\ host' = [h EXCEPT !.sun = IF host.edid # script.profile THEN 0 ELSE @]
              /\ ScriptGoto("rollback")
    /\ UNCHANGED <<ops, crashes, world>>

\* display.env, the mode script, its unit and Sunshine's drop-in; then the mode.
ScriptSelect ==
    /\ Running("select")
    /\ LET h == [host EXCEPT !.env = script.mode, !.modeUnit = TRUE]
       IN  \/ host' = ModeApplied(h) /\ ScriptGoto("restart")
           \/ May("script") /\ host' = h /\ ScriptGoto("rollback")
    /\ UNCHANGED <<ops, crashes, world>>

\* systemctl restart sunshine, and 30 s for it to answer.
ScriptRestart ==
    /\ Running("restart")
    /\ host' = SunshineRestarted(host)
    /\ \/ host'.sun # 0 /\ ApplyAnswer(TRUE)
       \/ (host'.sun = 0 \/ May("script")) /\ ScriptGoto("rollback")
    /\ UNCHANGED <<ops, crashes, world>>

\* rollback_all: the six files as they were, then the services once more.
ScriptRollback ==
    /\ Running("rollback")
    /\ host' = SunshineRestarted(XorgRestarted(
                 [host EXCEPT !.edid = script.edid, !.env = script.env,
                              !.modeUnit = script.modeUnit]))
    /\ ApplyAnswer(FALSE)
    /\ UNCHANGED <<ops, crashes, world>>

\* The 180 s run out, or the connection drops: the script goes on alone.
LoseReply ==
    /\ client.op = "apply" /\ client.pc = "wait"
    /\ May("rough")
    /\ Fail
    /\ UNCHANGED <<host, script, ops, crashes, world>>

------------------------------------------------------------------------------
(* The reboot helper                                                          *)

\* preflight_reboot: sunshine.service must be loaded, and is enabled; then the
\* reboot is scheduled.
RebootPreflight ==
    /\ At("reboot", "preflight")
    /\ IF host.sunUnit \in {"none", "masked"} \/ host.conf = 0
       THEN UNCHANGED host /\ Fail
       ELSE host' = [host EXCEPT !.sunUnit = "enabled", !.rebooting = TRUE] /\ Goto("disconnect")
    /\ UNCHANGED <<script, ops, crashes, world>>

\* wait_for_reboot_disconnect: any failed probe counts, and after 20 probes the
\* helper goes on without one.
RebootDisconnect ==
    /\ client.op = "reboot" /\ client.pc = "disconnect"
    /\ Goto("reconnect")
    /\ UNCHANGED <<host, script, ops, crashes, world>>

\* wait_for_reboot_reconnect: the boot id is not compared.
RebootReconnect ==
    /\ client.op = "reboot" /\ client.pc = "reconnect"
    /\ \/ host.up /\ Goto("recover")
       \/ ~host.up /\ Fail
    /\ UNCHANGED <<host, script, ops, crashes, world>>

\* ensure_noland_xorg, ensure_display_mode, the display and audio waits, and
\* recover_sunshine_after_reboot.
RebootRecover ==
    /\ At("reboot", "recover")
    /\ LET d == ModeApplied(IF host.x = 0 THEN XorgStarted(host) ELSE host)
           r == SunshineRestarted([d EXCEPT !.sunUnit = "enabled"])
       IN  /\ host' = r
           /\ IF r.sun # 0 THEN Report(claim) ELSE Fail
    /\ UNCHANGED <<script, ops, crashes, world>>

------------------------------------------------------------------------------
(* The machine                                                                *)

\* A scheduled reboot, or a crash: everything that ran is gone.
PowerOff ==
    /\ host.up
    /\ \/ host.rebooting /\ UNCHANGED crashes
       \/ May("crash") /\ crashes < MaxCrashes /\ crashes' = crashes + 1
    /\ host' = PoweredOff(host)
    /\ script' = NoScript
    /\ IF script.pc # "none" /\ client.op = "apply" /\ client.pc = "wait"
       THEN Fail
       ELSE UNCHANGED client /\ claim' = IF script.pc # "none" THEN [claim EXCEPT !.mode = 0] ELSE claim
    /\ UNCHANGED <<ops, world>>

Boot ==
    /\ ~host.up
    /\ host' = Booted(host)
    /\ UNCHANGED <<client, script, claim, ops, crashes, world>>

\* Xorg crashes and systemd restarts it (Restart=on-failure); the one-shot mode
\* unit stays active and does not run again.  Or it does not come back.
XorgCrash ==
    /\ May("rough") /\ host.up /\ host.x # 0 /\ crashes < MaxCrashes
    /\ \E m \in {0, host.conf} : host' = [host EXCEPT !.x = m]
    /\ crashes' = crashes + 1
    /\ UNCHANGED <<client, script, claim, ops, world>>

Install ==
    \/ InstallGpuPackages \/ InstallGpu \/ InstallGpuRebooted \/ InstallResume
    \/ InstallPackages \/ InstallCleanup \/ InstallDisplay \/ InstallOutput
    \/ InstallConfig \/ InstallCredentials
    \/ InstallService \/ InstallVerify \/ InstallValidate

Apply == ApplySend \/ ScriptEdid \/ ScriptSelect \/ ScriptRestart \/ ScriptRollback \/ LoseReply

Reboot == RebootPreflight \/ RebootDisconnect \/ RebootReconnect \/ RebootRecover

Next ==
    \/ BeginInstall \/ BeginApply \/ BeginReboot \/ LoseConnection
    \/ Install \/ Apply \/ Reboot
    \/ PowerOff \/ Boot \/ XorgCrash

Spec == Init /\ [][Next]_<<hostVars, world>>

------------------------------------------------------------------------------
(* What an operation that succeeded reported - the display mode an            *)
(* installation or a display change asked for, and the web credentials an     *)
(* installation set - is what the host serves whenever it is up and no        *)
(* operation is under way: after crashes, scheduled reboots and failed        *)
(* reboots, and after display changes that failed and were rolled back.       *)
(* (In "rough" behaviours, where a script outlives its operation or Xorg      *)
(* crashes alone, neither the code nor this promises it.)                     *)
ReportedServed ==
    ~May("rough") /\ client = Idle /\ script = NoScript /\ host.up =>
        /\ claim.mode # 0 => host.x = claim.mode
        /\ claim.password # 0 => host.sun = claim.password
==============================================================================
