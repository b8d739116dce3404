---------------------------- MODULE TunnelOwner ----------------------------
(***************************************************************************)
(* Who owns the managed tunnel.  The desktop (wireguard.rs) replaces or    *)
(* tears down the one tunnel of all instances by talking to an elevated    *)
(* helper process (noland-net-helper) through a status file, a stop file   *)
(* and a control socket; helpers exclude each other with an owner lock and *)
(* a transition lock.  Elevation prompts may be answered late, helpers are *)
(* killed, hang or fail, the desktop dies, configurations are rewritten.   *)
(* A configuration's content is a version number, 0 while it has none.     *)
(***************************************************************************)
EXTENDS Naturals

CONSTANTS Configs,       \* the instances' configuration files
          MaxLaunches,   \* bound: helpers launched
          MaxVersion,    \* bound: versions of configuration content
          Worlds         \* which of AllBehaviours may happen

AllBehaviours ==
    {"linux",      \* the desktop can clean up through an elevated process and repairs by itself
     "late",       \* a prompt is answered after the desktop has stopped waiting
     "denied",     \* the user refuses the elevation
     "killed",     \* a helper process is killed
     "hang",       \* a helper stops serving its loop
     "device",     \* the tunnel device cannot be opened or fails
     "silent",     \* the peer does not answer the handshake
     "appDies",    \* the desktop is killed
     "control",    \* the running tunnel is changed through the control socket
     "persist",    \* the file is not rewritten after such a change: an error, or a lost answer
     "cross",      \* the change is asked for another instance's configuration
     "rewrite"}    \* a configuration file is rewritten (provisioning, MTU tuning)

Launches == 1..MaxLaunches
Nobody == 0
Cleaning == MaxLaunches + 1      \* holder of the transition lock

VARIABLES
    helper,     \* launch -> helper process
    lock,       \* holders of the owner lock and of the transition lock
    record,     \* owner record inside the owner lock's file
    status,     \* status.json
    stop,       \* stop.request
    iface,      \* helper whose tunnel interface exists
    caller,     \* the desktop's operation on the tunnel
    cleaner,    \* elevated "stop" process
    file,       \* configuration -> version on disk
    control,    \* change made through the control socket and not yet in its file
    version,    \* versions used so far
    world

tunnelVars == <<helper, lock, record, status, stop, iface, caller, cleaner, file, control, version>>
vars == <<tunnelVars, world>>

May(b) == b \in world

NoStatus == [launch |-> Nobody, cfg |-> "none", fp |-> 0, active |-> FALSE, error |-> FALSE, fresh |-> FALSE]
Unborn == [pc |-> "unborn", cfg |-> CHOOSE c \in Configs : TRUE, fp |-> 0, runs |-> 0]
Idle == [pc |-> "idle", op |-> "none", cfg |-> CHOOSE c \in Configs : TRUE, launch |-> Nobody, fp |-> 0, seen |-> Nobody, ok |-> FALSE, owners |-> {}]
NoChange == [cfg |-> "none", from |-> 0, version |-> 0]

Init ==
    /\ world \in Worlds
    /\ helper = [h \in Launches |-> Unborn]
    /\ lock = [owner |-> Nobody, transition |-> Nobody]
    /\ record = Nobody
    /\ status = NoStatus
    /\ stop = FALSE
    /\ iface = Nobody
    /\ caller = Idle
    /\ cleaner = [pc |-> "idle", owners |-> {}]
    /\ file = [c \in Configs |-> 1]
    /\ control = NoChange
    /\ version = 1

Alive(h) == h # Nobody /\ helper[h].pc \notin {"unborn", "gone"}
Owning(h) == helper[h].pc \in {"locked", "opening", "running", "closing", "hung"}

-----------------------------------------------------------------------------
(* The desktop: replace_managed_gotatun_tunnel and teardown.  The          *)
(* lifecycle lock admits one at a time.                                    *)

At(pc) == caller.pc = pc
Go(pc) == caller' = [caller EXCEPT !.pc = pc]
Ends(ok) == caller' = [caller EXCEPT !.pc = "idle", !.ok = ok]
Stopped == IF caller.op = "replace" THEN Go("launch") ELSE Ends(TRUE)

Begin(op, c) ==
    /\ At("idle")
    /\ op = "replace" => helper[MaxLaunches].pc = "unborn"
    /\ caller' = [Idle EXCEPT !.pc = "stop", !.op = op, !.cfg = c, !.owners = {h \in Launches : Owning(h)}]
    /\ UNCHANGED <<helper, lock, record, status, stop, iface, cleaner, file, control, version, world>>

\* request_managed_gotatun_stop
StopLook ==
    /\ At("stop")
    /\ \/ /\ status = NoStatus
          /\ IF May("linux") THEN Go("cleanup") /\ UNCHANGED stop ELSE Stopped /\ stop' = FALSE
          /\ UNCHANGED status
       \/ /\ status # NoStatus /\ ~Alive(status.launch)
          /\ IF May("linux")
             THEN caller' = [caller EXCEPT !.pc = "cleanup", !.seen = status.launch] /\ UNCHANGED <<stop, status>>
             ELSE Stopped /\ stop' = FALSE /\ status' = NoStatus
       \/ /\ Alive(status.launch)
          /\ caller' = [caller EXCEPT !.pc = "request", !.seen = status.launch]
          /\ UNCHANGED <<stop, status>>
    /\ UNCHANGED <<helper, lock, record, iface, cleaner, file, control, version, world>>

StopRequest ==
    /\ At("request")
    /\ stop' = TRUE
    /\ Go("waitGone")
    /\ UNCHANGED <<helper, lock, record, status, iface, cleaner, file, control, version, world>>

\* Mutation: a helper that does not answer in time is taken for one that has exited.
WaitGoneAnyway ==
    /\ At("waitGone")
    /\ ~Alive(caller.seen) \/ helper[caller.seen].pc = "hung"
    /\ Stopped /\ stop' = FALSE /\ status' = NoStatus
    /\ UNCHANGED <<helper, lock, record, iface, cleaner, file, control, version, world>>

WaitGone ==
    /\ At("waitGone")
    /\ \/ ~Alive(caller.seen) /\ Stopped /\ stop' = FALSE /\ status' = NoStatus
       \/ /\ helper[caller.seen].pc = "hung"
          /\ IF May("linux") THEN Go("cleanup") ELSE Ends(FALSE)
          /\ UNCHANGED <<stop, status>>
    /\ UNCHANGED <<helper, lock, record, iface, cleaner, file, control, version, world>>

\* run_elevated_gotatun_cleanup
Cleanup ==
    /\ At("cleanup")
    /\ cleaner.pc = "idle"
    /\ \/ cleaner' = [cleaner EXCEPT !.pc = "asked"] /\ Go("cleaning")
       \/ May("denied") /\ Ends(FALSE) /\ UNCHANGED cleaner
    /\ UNCHANGED <<helper, lock, record, status, stop, iface, file, control, version, world>>

\* force_stop_managed_gotatun_in_runtime removes the files of the helper it has seen,
\* which a cleaner that succeeds has ended
Cleaned ==
    /\ At("cleaning")
    /\ \/ /\ cleaner.pc = "ok"
          /\ IF caller.seen = Nobody THEN Stopped /\ UNCHANGED <<stop, status>>
             ELSE Stopped /\ stop' = FALSE /\ status' = NoStatus
       \/ cleaner.pc = "failed" /\ Ends(FALSE) /\ UNCHANGED <<stop, status>>
    /\ cleaner' = [cleaner EXCEPT !.pc = "idle"]
    /\ UNCHANGED <<helper, lock, record, iface, file, control, version, world>>

\* launch_managed_gotatun_helper
Launch ==
    /\ At("launch")
    /\ \E h \in Launches :
          /\ helper[h].pc = "unborn" /\ \A g \in 1..(h - 1) : helper[g].pc # "unborn"
          /\ helper' = [helper EXCEPT ![h] = [Unborn EXCEPT !.pc = "pending", !.cfg = caller.cfg]]
          /\ caller' = [caller EXCEPT !.pc = "waitStart", !.launch = h, !.fp = file[caller.cfg]]
    /\ UNCHANGED <<lock, record, status, stop, iface, cleaner, file, control, version, world>>

\* wait_for_managed_gotatun_start
Mine == status.launch = caller.launch /\ status.fp = caller.fp
WaitStart ==
    /\ At("waitStart")
    /\ status # NoStatus /\ Mine
    /\ \/ status.active /\ Go("health")
       \/ ~status.active /\ status.error /\ Ends(FALSE)
    /\ UNCHANGED <<helper, lock, record, status, stop, iface, cleaner, file, control, version, world>>

\* An unanswered prompt stays on the screen; where none comes late the user dismisses it.
StartTimeout ==
    /\ At("waitStart")
    /\ ~(status # NoStatus /\ Mine /\ (status.active \/ status.error))
    /\ LET h == caller.launch IN
       \/ May("late") /\ UNCHANGED helper
       \/ ~May("late") /\ helper[h].pc = "pending" /\ helper' = [helper EXCEPT ![h].pc = "gone"]
       \/ helper[h].pc \in {"gone", "running", "hung"} /\ UNCHANGED helper
    /\ Ends(FALSE)
    /\ UNCHANGED <<lock, record, status, stop, iface, cleaner, file, control, version, world>>

\* wait_for_local_tunnel_health; a tunnel without a handshake is left running
Health ==
    /\ At("health")
    /\ \/ helper[caller.launch].pc = "running" /\ Ends(TRUE)
       \/ (May("silent") \/ helper[caller.launch].pc # "running") /\ Ends(FALSE)
    /\ UNCHANGED <<helper, lock, record, status, stop, iface, cleaner, file, control, version, world>>

AppDies ==
    /\ May("appDies")
    /\ ~At("idle")
    /\ caller' = Idle
    /\ UNCHANGED <<helper, lock, record, status, stop, iface, cleaner, file, control, version, world>>

-----------------------------------------------------------------------------
(* The elevated cleaner: cleanup_stale_runtime_owners under the transition *)
(* lock.  It writes a stop request and lists the running helpers, those    *)
(* that wait for a lock included; a prompt is a process of the privilege   *)
(* broker, which it does not find.                                         *)

CleanerLocks ==
    /\ cleaner.pc = "asked"
    /\ lock.transition = Nobody
    /\ lock' = [lock EXCEPT !.transition = Cleaning]
    /\ stop' = TRUE
    /\ cleaner' = [pc |-> "killing", owners |-> {h \in Launches : Alive(h) /\ helper[h].pc # "pending"}]
    /\ UNCHANGED <<helper, record, status, iface, caller, file, control, version, world>>

\* What remains when process h is gone: the system frees its locks and its interface.
Freed(h) == [lock EXCEPT !.owner = IF @ = h THEN Nobody ELSE @, !.transition = IF @ = h THEN Nobody ELSE @]
FreedIface(h) == IF iface = h THEN Nobody ELSE iface
Gone(h) ==
    /\ helper' = [helper EXCEPT ![h].pc = "gone"]
    /\ lock' = Freed(h)
    /\ iface' = FreedIface(h)

\* a helper stopped by SIGTERM leaves a last status, a killed one does not
CleanerKills(h) ==
    /\ cleaner.pc = "killing"
    /\ h \in cleaner.owners /\ Alive(h)
    /\ Gone(h)
    /\ status' \in {status} \cup (IF status.launch = h THEN {[status EXCEPT !.active = FALSE]} ELSE {})
    /\ UNCHANGED <<record, stop, caller, cleaner, file, control, version, world>>

CleanerEnds ==
    /\ cleaner.pc = "killing"
    /\ \A h \in cleaner.owners : ~Alive(h)
    /\ stop' = FALSE /\ status' = NoStatus
    /\ record' = Nobody
    /\ iface' = Nobody
    /\ lock' = [lock EXCEPT !.transition = Nobody]
    /\ cleaner' = [pc |-> "ok", owners |-> {}]
    /\ UNCHANGED <<helper, caller, file, control, version, world>>

CleanerFails ==
    /\ cleaner.pc = "killing"
    /\ \E h \in cleaner.owners : helper[h].pc = "hung"
    /\ lock' = [lock EXCEPT !.transition = Nobody]
    /\ cleaner' = [pc |-> "failed", owners |-> {}]
    /\ UNCHANGED <<helper, record, status, stop, iface, caller, file, control, version, world>>

CleanerUnheard ==
    /\ cleaner.pc \in {"ok", "failed"}
    /\ ~At("cleaning")
    /\ cleaner' = [cleaner EXCEPT !.pc = "idle"]
    /\ UNCHANGED <<helper, lock, record, status, stop, iface, caller, file, control, version, world>>

-----------------------------------------------------------------------------
(* The helper.                                                             *)

Becomes(h, pc) == helper' = [helper EXCEPT ![h].pc = pc]
Reports(h, active, error) ==
    status' = [launch |-> h, cfg |-> helper'[h].cfg, fp |-> helper'[h].fp, active |-> active, error |-> error, fresh |-> TRUE]

Answered(h) ==
    /\ helper[h].pc = "pending"
    /\ \/ Becomes(h, "starting")
       \/ May("denied") /\ Becomes(h, "gone")
    /\ UNCHANGED <<lock, record, status, stop, iface, caller, cleaner, file, control, version, world>>

\* run: the transition lock is waited for, the owner lock only tried
TakeLocks(h) ==
    /\ helper[h].pc = "starting"
    /\ lock.transition = Nobody
    /\ \/ /\ lock.owner = Nobody
          /\ lock' = [owner |-> h, transition |-> h]
          /\ record' = h
          /\ iface' = Nobody
          /\ stop' = FALSE
          /\ Becomes(h, "locked")
       \/ /\ lock.owner # Nobody
          /\ Becomes(h, "gone")
          /\ UNCHANGED <<lock, record, iface, stop>>
    /\ UNCHANGED <<status, caller, cleaner, file, control, version, world>>

Publish(h) ==
    /\ helper[h].pc = "locked"
    /\ helper' = [helper EXCEPT ![h].pc = "opening", ![h].fp = file[helper[h].cfg]]
    /\ Reports(h, FALSE, FALSE)
    /\ lock' = [lock EXCEPT !.transition = Nobody]
    /\ UNCHANGED <<record, stop, iface, caller, cleaner, file, control, version, world>>

Exits(h, error) ==
    /\ Gone(h)
    /\ Reports(h, FALSE, error)
    /\ record' = Nobody

\* run_tunnel reads the configuration file again
OpenDevice(h) ==
    /\ helper[h].pc = "opening"
    /\ \/ /\ helper' = [helper EXCEPT ![h].pc = "running", ![h].runs = file[helper[h].cfg]]
          /\ iface' = h
          /\ Reports(h, TRUE, FALSE)
          /\ UNCHANGED <<lock, record>>
       \/ May("device") /\ Exits(h, TRUE)
    /\ UNCHANGED <<stop, caller, cleaner, file, control, version, world>>

Heartbeat(h) ==
    /\ helper[h].pc = "running"
    /\ ~stop
    /\ UNCHANGED <<helper, lock, record, stop, iface, caller, cleaner, file, control, version, world>>
    /\ Reports(h, TRUE, FALSE)

CloseDevice(h) ==
    /\ helper[h].pc = "running"
    /\ stop \/ May("device")
    /\ Becomes(h, "closing")
    /\ iface' = Nobody
    /\ UNCHANGED <<lock, record, status, stop, caller, cleaner, file, control, version, world>>

Exit(h) ==
    /\ helper[h].pc = "closing"
    /\ Exits(h, FALSE)
    /\ stop' = FALSE
    /\ UNCHANGED <<caller, cleaner, file, control, version, world>>

Killed(h) ==
    /\ May("killed")
    /\ Alive(h)
    /\ Gone(h)
    /\ UNCHANGED <<record, status, stop, caller, cleaner, file, control, version, world>>

Hangs(h) ==
    /\ May("hang")
    /\ helper[h].pc = "running"
    /\ Becomes(h, "hung")
    /\ UNCHANGED <<lock, record, status, stop, iface, caller, cleaner, file, control, version, world>>

StatusAges ==
    /\ status # NoStatus
    /\ status.fresh
    /\ helper[status.launch].pc # "running"
    /\ status' = [status EXCEPT !.fresh = FALSE]
    /\ UNCHANGED <<helper, lock, record, stop, iface, caller, cleaner, file, control, version, world>>

-----------------------------------------------------------------------------
(* Changes of the running tunnel and of the configuration files.           *)

Reporting == status # NoStatus /\ status.active /\ status.fresh /\ Alive(status.launch)

\* set_managed_gotatun_*: the helper applies the change, then the desktop writes it to the
\* file; require_active_gotatun_control does not compare the configuration
ControlSet(c) ==
    /\ May("control")
    /\ control = NoChange
    /\ Reporting /\ helper[status.launch].pc = "running"
    /\ c = status.cfg \/ May("cross")
    /\ version < MaxVersion
    /\ version' = version + 1
    /\ control' = [cfg |-> c, from |-> helper[status.launch].runs, version |-> version + 1]
    /\ helper' = [helper EXCEPT ![status.launch].runs = version + 1]
    /\ UNCHANGED <<lock, record, status, stop, iface, caller, cleaner, file, world>>

\* persist_client_config_value changes the file as it is by then
ControlWrite ==
    /\ control # NoChange
    /\ control' = NoChange
    /\ \/ /\ file[control.cfg] = control.from
          /\ file' = [file EXCEPT ![control.cfg] = control.version]
          /\ UNCHANGED version
       \/ /\ file[control.cfg] # control.from
          /\ file' = [file EXCEPT ![control.cfg] = version + 1]
          /\ version' = version + 1
       \/ May("persist") /\ UNCHANGED <<file, version>>
    /\ UNCHANGED <<helper, lock, record, status, stop, iface, caller, cleaner, world>>

Rewrite(c) ==
    /\ May("rewrite")
    /\ version < MaxVersion
    /\ version' = version + 1
    /\ file' = [file EXCEPT ![c] = version + 1]
    /\ UNCHANGED <<helper, lock, record, status, stop, iface, caller, cleaner, control, world>>

\* verify_managed_gotatun_tunnel, without the handshake
Verify(c) == Reporting /\ status.cfg = c /\ status.fp = file[c]

-----------------------------------------------------------------------------
CallerStep == StopLook \/ StopRequest \/ WaitGone \/ Cleanup \/ Cleaned \/ Launch \/ WaitStart \/ StartTimeout \/ Health
CleanerStep == CleanerLocks \/ (\E h \in Launches : CleanerKills(h)) \/ CleanerEnds \/ CleanerFails \/ CleanerUnheard
HelperStep(h) == TakeLocks(h) \/ Publish(h) \/ OpenDevice(h) \/ CloseDevice(h) \/ Exit(h)

Next ==
    \/ \E op \in {"replace", "teardown"}, c \in Configs : Begin(op, c)
    \/ CallerStep \/ AppDies \/ CleanerStep
    \/ \E h \in Launches : HelperStep(h) \/ Answered(h) \/ Heartbeat(h) \/ Killed(h) \/ Hangs(h)
    \/ StatusAges
    \/ ControlWrite
    \/ \E c \in Configs : ControlSet(c) \/ Rewrite(c)

Spec == Init /\ [][Next]_vars
Fairness ==
    /\ WF_tunnelVars(CallerStep) /\ WF_tunnelVars(CleanerStep)
    /\ \A h \in Launches : WF_tunnelVars(HelperStep(h))
FairSpec == Spec /\ Fairness

-----------------------------------------------------------------------------
(* A running helper keeps the interface it created: no other helper and no *)
(* cleanup deletes it or takes its lock, whoever starts, hangs or dies.    *)
OneOwner ==
    /\ \A h \in Launches : Owning(h) => lock.owner = h
    /\ \A h \in Launches : helper[h].pc \in {"running", "hung"} => iface = h
    /\ iface # Nobody => lock.owner = iface

(* A verified tunnel runs the configuration that is on disk, or the change *)
(* that is about to be written there: fingerprint, status and process are  *)
(* read at different times and none of them is stale, as long as a control *)
(* change is written to its own file.                                      *)
VerifiedRuns ==
    \A c \in Configs : Verify(c) /\ ~May("persist") /\ ~May("cross") =>
        /\ helper[status.launch].cfg = c
        /\ helper[status.launch].runs \in {file[c], control.version}

(* A tear-down that succeeds has ended every helper that owned the tunnel  *)
(* when it began, published or not, where it can clean up by force; and no *)
(* helper is left that will come up later, unless the desktop had stopped  *)
(* waiting for its elevation prompt: no stop finds a prompt.               *)
Unawaited == May("late") \/ May("appDies")
StoppedStaysDown ==
    At("idle") /\ caller.op = "teardown" /\ caller.ok =>
        /\ May("linux") => \A h \in caller.owners : ~Alive(h)
        /\ ~Unawaited => \A h \in Launches : ~Alive(h)

(* The three together.                                                     *)
TunnelSafe == OneOwner /\ VerifiedRuns /\ StoppedStaysDown
=============================================================================
