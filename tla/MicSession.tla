---------------------------- MODULE MicSession ----------------------------
(***************************************************************************)
(* The microphone control plane of the desktop                             *)
(* (services/mic_passthrough.rs): the commands that enable, disable,       *)
(* reconnect and configure microphone forwarding, the task a game stream   *)
(* starts for its instance, and the supervisor that replaces a dead        *)
(* sidecar every three seconds.  Sessions, sidecar handles, preferences    *)
(* and the host receiver are four separate pieces of state; every command  *)
(* changes them one at a time with awaits in between.  Device and bitrate  *)
(* are left out: no property tells two of them apart.                      *)
(*                                                                         *)
(* A task is a running command.  Its number is the session id it creates.  *)
(***************************************************************************)
EXTENDS Naturals, FiniteSets

CONSTANTS
    Instances,
    Commanded,    \* the instances manual commands are given for
    MaxTasks,     \* bound: commands started
    MaxManual,    \* bound: commands where manual ones are given or streams fail
    MaxStreams,   \* bound: streams started
    MaxDeaths,    \* bound: sidecars that die
    Worlds        \* which of "manual" and "stream" commands are given, and
                  \* which of "double", "preempt", "disk", "unreachable",
                  \* "late", "recreate", "fails" and "dies" occur

VARIABLES
    tasks,        \* the commands, in the order they started
    started,
    sessions,     \* MIC_SESSIONS: the session id of each instance, 0 if none
    handles,      \* MIC_HANDLES: the session a sidecar was started for
    alive,        \* whether the sidecar process of the handle still runs
    receiver,     \* host: the session id in the receiver's configuration
    straggler,    \* host: a start script still under way whose caller gave up
    prefers,      \* mic_forwarding_enabled
    streaming,    \* active_stream_instance_id
    ended,        \* history: the instances whose last stream was closed
    pass,         \* the supervisor's pass
    deaths,
    world

micVars == <<tasks, started, sessions, handles, alive, receiver, straggler, prefers,
             streaming, ended, pass, deaths>>
vars == <<micVars, world>>
host == <<receiver, straggler>>
shown == <<streaming, ended>>

NoInstance == "none"
NoSession == 0
Installed == MaxTasks + 1   \* the id the installer draws: nobody's session

May(b) == b \in world

Idle == [pc |-> "idle", todo |-> {}, at |-> NoInstance, id |-> NoSession]
NoTask == [kind |-> "none", pc |-> "done", at |-> NoInstance, stop |-> NoInstance,
           took |-> NoSession, kept |-> FALSE, then |-> "done"]

Init ==
    /\ world \in Worlds
    /\ tasks = [t \in 1..MaxTasks |-> NoTask]
    /\ started = 0
    /\ sessions = [i \in Instances |-> NoSession]
    /\ handles = [i \in Instances |-> NoSession]
    /\ alive = [i \in Instances |-> FALSE]
    /\ receiver = [i \in Instances |-> NoSession]
    /\ straggler = [i \in Instances |-> NoSession]
    /\ prefers = [i \in Instances |-> TRUE]
    /\ streaming = NoInstance
    /\ ended = {}
    /\ pass = Idle
    /\ deaths = 0

Live(t) == tasks[t].pc # "done"

Goto(t, pc) == tasks' = [tasks EXCEPT ![t].pc = pc]

(* remove a handle: the sidecar is shut down *)
Unhook(i) ==
    /\ handles' = [handles EXCEPT ![i] = NoSession]
    /\ alive' = [alive EXCEPT ![i] = FALSE]

(* insert a handle: an older sidecar in its place is stopped *)
Hook(i, s) ==
    /\ handles' = [handles EXCEPT ![i] = s]
    /\ alive' = [alive EXCEPT ![i] = TRUE]

(* the control script stops the receiver of the named session only *)
HostStop(i, s) == receiver' = [receiver EXCEPT ![i] = IF @ = s THEN NoSession ELSE @]

(***************************************************************************)
(* Commands.  Without "double" a user does not start an enabling command   *)
(* for an instance while another one is running there.                     *)
(***************************************************************************)
Enabling == {"enable", "reconnect", "stream"}

Begin(kind, i, task) ==
    /\ started < IF May("manual") \/ May("fails") THEN MaxManual ELSE MaxTasks
    /\ May(IF kind \in {"stream", "close"} THEN "stream" ELSE "manual")
    /\ kind \in Enabling /\ ~May("double") =>
          \A t \in 1..started :
              ~(Live(t) /\ tasks[t].kind \in Enabling /\ tasks[t].at = i)
    /\ started' = started + 1
    /\ tasks' = [tasks EXCEPT ![started + 1] = task]

Task(kind, i, pc) ==
    [kind |-> kind, pc |-> pc, at |-> i, stop |-> i, took |-> NoSession,
     kept |-> FALSE, then |-> "done"]

Enable(i) ==
    /\ Begin("enable", i, Task("enable", i, "check"))
    /\ UNCHANGED <<sessions, handles, alive, host, prefers, shown, pass, deaths>>

Disable(i) ==
    /\ Begin("disable", i, Task("disable", i, "unlist"))
    /\ UNCHANGED <<sessions, handles, alive, host, prefers, shown, pass, deaths>>

(* stop_for_game_stream, then enable *)
Reconnect(i) ==
    /\ Begin("reconnect", i, [Task("reconnect", i, "unlist") EXCEPT !.then = "check"])
    /\ UNCHANGED <<sessions, handles, alive, host, prefers, shown, pass, deaths>>

(* update_settings without a new forwarding choice keeps the one it read *)
UpdateSettings(i) ==
    /\ Begin("settings", i, [Task("settings", i, "settle") EXCEPT !.kept = prefers[i]])
    /\ UNCHANGED <<sessions, handles, alive, host, prefers, shown, pass, deaths>>

(* recreate_device *)
RecreateDevice(i) ==
    /\ May("recreate")
    /\ Begin("recreate", i, [Task("recreate", i, "device") EXCEPT !.then = "install"])
    /\ UNCHANGED <<sessions, handles, alive, host, prefers, shown, pass, deaths>>

(* the instance becomes the one that streams, whichever it was before *)
Show(i) ==
    /\ streaming' = i
    /\ ended' = ended \ {i}

(* start_runtime_with_connection_repair names the instance first *)
StartStream(i) ==
    /\ Cardinality({t \in 1..started : tasks[t].kind = "stream"}) < MaxStreams
    /\ Begin("stream", i, Task("stream", i, "runtime"))
    /\ Show(i)
    /\ UNCHANGED <<sessions, handles, alive, host, prefers, pass, deaths>>

(* closing the stream takes the active instance and stops its microphone *)
CloseStream ==
    /\ streaming # NoInstance
    /\ Begin("close", streaming, Task("close", streaming, "unlist"))
    /\ streaming' = NoInstance
    /\ ended' = ended \cup {streaming}
    /\ UNCHANGED <<sessions, handles, alive, host, prefers, pass, deaths>>

(***************************************************************************)
(* Once the runtime has started, schedule_microphone_for_game_stream names *)
(* the instance again and stops the microphone of the one it found named,  *)
(* if that is another: one named while the runtime started, as the stream  *)
(* replaced before is no longer named.  Of the two commands that start a   *)
(* stream, one names its instance itself before and stops nothing.         *)
(***************************************************************************)
Schedule(t) ==
    /\ tasks[t].pc = "runtime"
    /\ Show(tasks[t].at)
    /\ \/ Goto(t, "gate")
       \/ /\ streaming \notin {NoInstance, tasks[t].at}
          /\ tasks' = [tasks EXCEPT ![t].pc = "unlist", ![t].stop = streaming,
                                    ![t].then = "gate"]
    /\ UNCHANGED <<started, sessions, handles, alive, host, prefers, pass, deaths>>

(* clear_active_stream_instance *)
Forget(i) == streaming' = IF streaming = i THEN NoInstance ELSE streaming

RuntimeFails(t) ==
    /\ May("fails") /\ tasks[t].pc = "runtime"
    /\ Forget(tasks[t].at)
    /\ Goto(t, "done")
    /\ UNCHANGED <<started, sessions, handles, alive, host, prefers, ended, pass, deaths>>

(* A stream that was started and did not come up is forgotten when its     *)
(* repair fails; its microphone is left as it is.                          *)
StreamFails ==
    /\ May("fails")
    /\ \E t \in 1..started :
          tasks[t].kind = "stream" /\ tasks[t].at = streaming /\ tasks[t].pc # "runtime"
    /\ Forget(streaming)
    /\ UNCHANGED <<tasks, started, sessions, handles, alive, host, prefers, ended, pass, deaths>>

(***************************************************************************)
(* auto_start_for_game_stream and the two still_active checks around it    *)
(***************************************************************************)
Gate(t) ==
    /\ tasks[t].pc = "gate"
    /\ Goto(t, IF streaming = tasks[t].at /\ prefers[tasks[t].at] /\ sessions[tasks[t].at] = NoSession
               THEN "check"
               ELSE "done")
    /\ UNCHANGED <<started, sessions, handles, alive, host, prefers, shown, pass, deaths>>

Verify(t) ==
    /\ tasks[t].pc = "verify"
    /\ tasks' = [tasks EXCEPT ![t].pc = IF streaming = tasks[t].at THEN "done" ELSE "unlist",
                              ![t].stop = tasks[t].at]
    /\ UNCHANGED <<started, sessions, handles, alive, host, prefers, shown, pass, deaths>>

(***************************************************************************)
(* enable                                                                  *)
(***************************************************************************)
Check(t) ==
    /\ tasks[t].pc = "check"
    /\ Goto(t, IF sessions[tasks[t].at] # NoSession THEN "done" ELSE "ask")
    /\ UNCHANGED <<started, sessions, handles, alive, host, prefers, shown, pass, deaths>>

(* The host starts the receiver of this session in place of any other; its *)
(* answer may be lost, and the script may go on after the call gave up.    *)
Ask(t) ==
    /\ tasks[t].pc \in {"ask", "again"}
    /\ \/ /\ receiver' = [receiver EXCEPT ![tasks[t].at] = t]
          /\ Goto(t, "activate")
          /\ UNCHANGED straggler
       \/ /\ May("unreachable")
          /\ \/ receiver' \in {receiver, [receiver EXCEPT ![tasks[t].at] = t]} /\ UNCHANGED straggler
             \/ May("late") /\ straggler' = [straggler EXCEPT ![tasks[t].at] = t] /\ UNCHANGED receiver
          /\ Goto(t, IF tasks[t].pc = "ask" THEN "install" ELSE "done")
    /\ UNCHANGED <<started, sessions, handles, alive, prefers, shown, pass, deaths>>

LateStart(i) ==
    /\ straggler[i] # NoSession
    /\ receiver' = [receiver EXCEPT ![i] = straggler[i]]
    /\ straggler' = [straggler EXCEPT ![i] = NoSession]
    /\ UNCHANGED <<tasks, started, sessions, handles, alive, prefers, shown, pass, deaths>>

(* The recording device is looked for, PipeWire is restarted if it is not  *)
(* there; the receiver keeps its configuration.                            *)
Device(t) ==
    /\ tasks[t].pc = "device"
    /\ \/ Goto(t, "done")
       \/ /\ May("unreachable")
          /\ tasks' = [tasks EXCEPT ![t].pc = tasks[t].then, ![t].then = "done"]
    /\ UNCHANGED <<started, sessions, handles, alive, host, prefers, shown, pass, deaths>>

(* The first failure installs the receiver again, which stops it and       *)
(* starts it with a session id of its own; then the host is asked once     *)
(* more.                                                                   *)
Install(t) ==
    /\ tasks[t].pc = "install"
    /\ \/ /\ receiver' = [receiver EXCEPT ![tasks[t].at] = Installed]
          /\ Goto(t, IF tasks[t].kind = "recreate" THEN "device" ELSE "again")
       \/ /\ receiver' \in {[receiver EXCEPT ![tasks[t].at] = s] :
                              s \in {receiver[tasks[t].at], NoSession, Installed}}
          /\ Goto(t, "done")
    /\ UNCHANGED <<started, sessions, handles, alive, straggler, prefers, shown, pass, deaths>>

(* A later failure stops the host session, as far as the host hears it. *)
GiveUp(t) ==
    /\ May("unreachable")
    /\ HostStop(tasks[t].at, t) \/ UNCHANGED receiver
    /\ Goto(t, "done")

Activate(t) ==
    /\ tasks[t].pc = "activate"
    /\ (Goto(t, "launch") /\ UNCHANGED receiver) \/ GiveUp(t)
    /\ UNCHANGED <<started, sessions, handles, alive, straggler, prefers, shown, pass, deaths>>

LaunchFails(t) ==
    /\ tasks[t].pc = "launch"
    /\ GiveUp(t)
    /\ UNCHANGED <<started, sessions, handles, alive, straggler, prefers, shown, pass, deaths>>

Launch(t) ==
    /\ tasks[t].pc = "launch"
    /\ Hook(tasks[t].at, t)
    /\ Goto(t, "list")
    /\ UNCHANGED <<started, sessions, host, prefers, shown, pass, deaths>>

List(t) ==
    /\ tasks[t].pc = "list"
    /\ sessions' = [sessions EXCEPT ![tasks[t].at] = t]
    /\ Goto(t, "save")
    /\ UNCHANGED <<started, handles, alive, host, prefers, shown, pass, deaths>>

Save(t) ==
    /\ tasks[t].pc = "save"
    /\ \/ /\ prefers' = [prefers EXCEPT ![tasks[t].at] = TRUE]
          /\ Goto(t, IF tasks[t].kind = "stream" THEN "verify" ELSE "done")
       \/ /\ May("disk")
          /\ Goto(t, "done")
          /\ UNCHANGED prefers
    /\ UNCHANGED <<started, sessions, handles, alive, host, shown, pass, deaths>>

(***************************************************************************)
(* stop_runtime_session                                                    *)
(***************************************************************************)
(* Mutation: the session is read and not removed. *)
UnlistReads(t) ==
    /\ tasks[t].pc = "unlist"
    /\ tasks' = [tasks EXCEPT ![t].pc = "unhook", ![t].took = sessions[tasks[t].stop]]
    /\ UNCHANGED <<started, sessions, handles, alive, host, prefers, shown, pass, deaths>>

Unlist(t) ==
    /\ tasks[t].pc = "unlist"
    /\ sessions' = [sessions EXCEPT ![tasks[t].stop] = NoSession]
    /\ tasks' = [tasks EXCEPT ![t].pc = "unhook", ![t].took = sessions[tasks[t].stop]]
    /\ UNCHANGED <<started, handles, alive, host, prefers, shown, pass, deaths>>

StopSidecar(t) ==
    /\ tasks[t].pc = "unhook"
    /\ Unhook(tasks[t].stop)
    /\ Goto(t, IF tasks[t].kind = "disable" THEN "prefer" ELSE "hangup")
    /\ UNCHANGED <<started, sessions, host, prefers, shown, pass, deaths>>

Prefer(t) ==
    /\ tasks[t].pc = "prefer"
    /\ \/ /\ prefers' = [prefers EXCEPT ![tasks[t].at] = FALSE]
          /\ Goto(t, "hangup")
       \/ /\ May("disk")
          /\ Goto(t, "done")
          /\ UNCHANGED prefers
    /\ UNCHANGED <<started, sessions, handles, alive, host, shown, pass, deaths>>

HangUp(t) ==
    /\ tasks[t].pc = "hangup"
    /\ \/ tasks[t].took # NoSession /\ HostStop(tasks[t].stop, tasks[t].took)
       \/ (tasks[t].took # NoSession => May("unreachable")) /\ UNCHANGED receiver
    /\ tasks' = [tasks EXCEPT ![t].pc = tasks[t].then, ![t].then = "done"]
    /\ UNCHANGED <<started, sessions, handles, alive, straggler, prefers, shown, pass, deaths>>

(* update_settings writes all the preferences, the kept ones included; a   *)
(* running sidecar is then told its device and bitrate, or the call fails. *)
Settle(t) ==
    /\ tasks[t].pc = "settle"
    /\ \/ prefers' = [prefers EXCEPT ![tasks[t].at] = tasks[t].kept]
       \/ May("disk") /\ UNCHANGED prefers
    /\ Goto(t, "done")
    /\ UNCHANGED <<started, sessions, handles, alive, host, shown, pass, deaths>>

TaskStep(t) ==
    \/ Schedule(t) \/ RuntimeFails(t) \/ Gate(t) \/ Verify(t)
    \/ Check(t) \/ Ask(t) \/ Install(t) \/ Activate(t) \/ LaunchFails(t) \/ Launch(t) \/ List(t) \/ Save(t)
    \/ Unlist(t) \/ StopSidecar(t) \/ Prefer(t) \/ HangUp(t)
    \/ Settle(t) \/ Device(t)

(***************************************************************************)
(* maintain_active_sessions                                                *)
(***************************************************************************)
Listed == {i \in Instances : sessions[i] # NoSession}

StartPass ==
    /\ pass.pc = "idle"
    /\ Listed # {}
    /\ pass' = [Idle EXCEPT !.pc = "inspect", !.todo = {<<i, sessions[i]>> : i \in Listed}]
    /\ UNCHANGED <<tasks, started, sessions, handles, alive, host, prefers, shown, deaths>>

(* a missing handle or an exited process is replaced; nothing else is seen *)
Inspect ==
    /\ pass.pc = "inspect"
    /\ \E entry \in pass.todo :
          LET i == entry[1]
              rest == [pass EXCEPT !.todo = @ \ {entry}]
          IN  pass' = CASE ~alive[i] -> [rest EXCEPT !.pc = "replace", !.at = i, !.id = entry[2]]
                        [] alive[i] /\ rest.todo = {} -> Idle
                        [] OTHER -> rest
    /\ UNCHANGED <<tasks, started, sessions, handles, alive, host, prefers, shown, deaths>>

PassGoesOn(pc) == IF pass.todo = {} THEN Idle ELSE [pass EXCEPT !.pc = pc]

Replace ==
    /\ pass.pc = "replace"
    /\ Unhook(pass.at)
    /\ \/ pass' = [pass EXCEPT !.pc = "confirm"]
       \/ May("unreachable") /\ pass' = PassGoesOn("inspect")
    /\ UNCHANGED <<tasks, started, sessions, host, prefers, shown, deaths>>

(* A sidecar was started for the session of the snapshot; it is kept only  *)
(* if that session is still the instance's.  The check and the insertion   *)
(* are two locks: with "preempt" other threads run between them.           *)
Confirm ==
    /\ pass.pc = "confirm"
    /\ \/ /\ sessions[pass.at] # pass.id
          /\ pass' = PassGoesOn("inspect")
          /\ UNCHANGED <<handles, alive>>
       \/ /\ sessions[pass.at] = pass.id
          /\ May("preempt")
          /\ pass' = [pass EXCEPT !.pc = "insert"]
          /\ UNCHANGED <<handles, alive>>
       \/ /\ sessions[pass.at] = pass.id
          /\ Hook(pass.at, pass.id)
          /\ pass' = PassGoesOn("inspect")
    /\ UNCHANGED <<tasks, started, sessions, host, prefers, shown, deaths>>

Insert ==
    /\ pass.pc = "insert"
    /\ Hook(pass.at, pass.id)
    /\ pass' = PassGoesOn("inspect")
    /\ UNCHANGED <<tasks, started, sessions, host, prefers, shown, deaths>>

PassStep == StartPass \/ Inspect \/ Replace \/ Confirm \/ Insert

SidecarDies ==
    /\ May("dies") /\ deaths < MaxDeaths
    /\ \E i \in Instances :
          /\ alive[i]
          /\ alive' = [alive EXCEPT ![i] = FALSE]
    /\ deaths' = deaths + 1
    /\ UNCHANGED <<tasks, started, sessions, handles, host, prefers, shown, pass>>

Commands ==
    \/ \E i \in Commanded : Enable(i) \/ Disable(i) \/ Reconnect(i) \/ UpdateSettings(i)
                             \/ RecreateDevice(i)
    \/ \E i \in Instances : StartStream(i)
    \/ CloseStream

Next ==
    /\ \/ Commands \/ (\E t \in 1..MaxTasks : TaskStep(t)) \/ PassStep
       \/ SidecarDies \/ StreamFails \/ (\E i \in Instances : LateStart(i))
    /\ UNCHANGED world

Spec == Init /\ [][Next]_vars

(* Tasks run to their end: every remote call has a time-out.  The          *)
(* supervisor's loop runs for the life of the application.                 *)
FairSpec ==
    /\ Spec
    /\ \A t \in 1..MaxTasks : WF_micVars(TaskStep(t) /\ UNCHANGED world)
    /\ WF_micVars(PassStep /\ UNCHANGED world)

(***************************************************************************)
(* Properties                                                              *)
(***************************************************************************)
Touches(t, i) == Live(t) /\ i \in {tasks[t].at, tasks[t].stop}

Rested(i) ==
    /\ \A t \in 1..MaxTasks : ~Touches(t, i)
    /\ pass.at = i => pass.pc \in {"idle", "inspect"}

(* A sidecar only captures for the session of its instance, and the host   *)
(* receiver listens for that session, whenever no command and no           *)
(* supervisor step is working on the instance: the supervisor compares the *)
(* session id before it keeps a replacement.  Two enabling commands at     *)
(* once, or a stop inside the supervisor's last step, are outside of it.   *)
(* The host's part also leaves out a device that is recreated, which may   *)
(* reinstall the receiver under a live session, and a start script that    *)
(* outlives its call.                                                      *)
SidecarHasSession ==
    \A i \in Instances :
        Rested(i) /\ ~May("double") /\ ~May("preempt") =>
            /\ handles[i] # NoSession => handles[i] = sessions[i]
            /\ sessions[i] # NoSession /\ ~May("recreate") /\ ~May("late") =>
                  receiver[i] = sessions[i]

(* After the game stream of an instance was closed, a microphone session  *)
(* the stream's task was still starting is stopped as well: the task looks *)
(* at the active stream again once its session is up.  A stream that is    *)
(* replaced by another one or fails is not closed and keeps its microphone.*)
(* (A session the user enables with no stream running is the user's own.)  *)
StreamOver(i) ==
    i \in ended /\ ~May("manual") /\ ~May("preempt") /\ ~May("disk")
MicOff(i) ==
    i \notin ended \/ (sessions[i] = NoSession /\ handles[i] = NoSession)
=============================================================================
