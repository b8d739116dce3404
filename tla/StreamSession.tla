--------------------------- MODULE StreamSession ---------------------------
(***************************************************************************)
(* A game stream in the desktop.  The commands that start a stream         *)
(* (commands/mod.rs) prepare it, make a window and ask the runtime actor   *)
(* (moonlight/runtime/mod.rs) to start; every accepted start leaves a      *)
(* watcher that repairs the connection and starts once more when the       *)
(* stream falls back to Idle before it streams.  Streams are closed by a   *)
(* command, by their window, by pausing or destroying the instance, or to  *)
(* be replaced.  The actor drives the native library (noland_moonlight.c), *)
(* whose events carry the generation of the session that raised them.      *)
(* Each start the user asks for is an attempt.                             *)
(***************************************************************************)
EXTENDS Naturals, Sequences, SequencesExt

CONSTANTS Instances, MaxAttempts, MaxGen, Worlds

None == "none"
Attempts == 1..MaxAttempts

AllBehaviours ==
    {"late",       \* the thread that reports the end of a session runs later
     "overtaken",  \* ... even after the next session was started
     "steady",     \* the preferences switch the automatic reconnect off
     "adapt",      \* a smaller packet size is learnt while streaming
     "impatient",  \* the stream is closed while its start command still runs
     "again",      \* a stream is started while the start of an earlier one is still watched
     "direct",     \* the stream is started by moonlight_start_stream
     "other",      \* streams of more than one instance
     "second",     \* a stream is started while another start command runs or another stream is up
     "faults",     \* a window or surface call fails
     "teardown"}   \* the instance is paused or destroyed while it streams

VARIABLES
    rt,        \* the runtime actor
    nat,       \* the native session
    evq,       \* events the native library has queued
    att,       \* attempt -> start command
    watcher,   \* attempt -> what watches its start
    closer,    \* the close in progress
    desk,      \* active instance, network flag, window, surface, preferences, monitor
    changed,   \* the task that follows the runtime's state has something to see
    closed,    \* attempts the user has closed
    settled,   \* of those, the ones whose close ran to its end before a watcher
               \* passed its last check
    world

streamVars == <<rt, nat, evq, att, watcher, closer, desk, changed, closed, settled>>
vars == <<streamVars, world>>

May(b) == b \in world

Idling == [st |-> "Idle", gen |-> 0, desired |-> FALSE, req |-> 0,
           attempted |-> FALSE, inflight |-> FALSE, deferred |-> FALSE,
           again |-> 0]    \* history: automatic reconnects of this start

Init ==
    /\ world \in Worlds
    /\ rt = Idling
    /\ nat = [st |-> "idle", gen |-> 0, stalled |-> FALSE, late |-> 0]
    /\ evq = <<>>
    /\ att = [k \in Attempts |-> [pc |-> "new", inst |-> CHOOSE i \in Instances : TRUE, kind |-> "launch"]]
    /\ watcher = [k \in Attempts |-> "none"]
    /\ closer = [pc |-> "idle", kind |-> "disconnect"]
    /\ desk = [active |-> None, net |-> FALSE, win |-> FALSE, surface |-> FALSE, prefs |-> FALSE, monitor |-> FALSE]
    /\ changed = FALSE
    /\ closed = {}
    /\ settled = {}

-----------------------------------------------------------------------------
(* The native library.                                                     *)

Push(events) == evq' = evq \o events
Event(kind, code) == [kind |-> kind, gen |-> nat.gen, code |-> code]

\* nl_connection_started, nl_connection_stage_failed with nl_runtime_finish_worker,
\* nl_connection_terminated; frames that stop arriving raise no event at all.
\* An event is stamped with the generation of the moment it is queued.
Connects ==
    /\ nat.st = "starting"
    /\ nat' = [nat EXCEPT !.st = "streaming"]
    /\ Push(<<Event("connected", 0)>>)

FailsStage ==
    /\ nat.st = "starting"
    /\ nat' = [nat EXCEPT !.st = "idle"]
    /\ Push(<<Event("failed", 1), Event("stopped", 1)>>)

Terminates ==
    /\ nat.st = "streaming" /\ nat.late # nat.gen
    /\ nat' = [nat EXCEPT !.st = "idle", !.stalled = FALSE]
    /\ \E code \in {0, 1} : Push(<<Event("terminated", code)>>)

Stalls ==
    /\ nat.st = "streaming" /\ ~nat.stalled
    /\ nat' = [nat EXCEPT !.stalled = TRUE]
    /\ UNCHANGED evq

\* ClInternalConnectionTerminated leaves the report to a detached thread.
Breaks ==
    /\ May("late") /\ nat.st = "streaming" /\ nat.late = 0
    /\ nat' = [nat EXCEPT !.late = nat.gen]
    /\ UNCHANGED evq

\* The thread reports to whichever session is there when it runs; once the runtime
\* is no longer the active one it reports nothing, unless it had fetched it before.
ReportsLate ==
    /\ nat.late # 0 /\ (nat.late = nat.gen \/ May("overtaken"))
    /\ nat' = [nat EXCEPT !.late = 0,
                          !.st = IF nat.late = nat.gen THEN "idle" ELSE @,
                          !.stalled = @ /\ nat.late # nat.gen]
    /\ Push(<<Event("terminated", 1)>>) \/ (nat.st = "idle" /\ UNCHANGED evq)

NativeStep ==
    /\ Connects \/ FailsStage \/ Terminates \/ Stalls \/ Breaks \/ ReportsLate
    /\ UNCHANGED <<rt, att, watcher, closer, desk, changed, closed, settled, world>>

NatStopped == [nat EXCEPT !.st = "idle", !.stalled = FALSE]
NatStarted(gen) == [nat EXCEPT !.st = "starting", !.gen = gen, !.stalled = FALSE]

-----------------------------------------------------------------------------
(* The runtime actor.                                                      *)

Terminal(e) == e.kind \in {"failed", "stopped", "terminated"}

ShouldAutoReconnect(s, e) ==
    /\ s.st = "Streaming" /\ e.kind = "terminated" /\ e.code # 0
    /\ rt.desired /\ ~rt.attempted
    /\ rt.req # 0 /\ ~May("steady")

ProcessNativeEvent(st, e) ==
    IF e.kind = "connected" THEN IF st = "Connecting" THEN "Streaming" ELSE st
    ELSE IF st = "Streaming" /\ e.kind = "terminated" /\ e.code # 0 THEN "Reconnecting"
    ELSE IF Terminal(e) THEN "Idle" ELSE st

CurrentUnchecked(e) == TRUE

Current(e) == e.gen = 0 \/ e.gen = rt.gen

\* one drained event; s holds what the tick has decided so far
HandleEvent(s, e) ==
    IF \/ ~Current(e)
       \/ Terminal(e) /\ s.st = "Reconnecting" /\ (rt.deferred \/ s.reconnect)
    THEN s
    ELSE LET again == ShouldAutoReconnect(s, e)
             up == e.kind = "connected" /\ e.gen = rt.gen
         IN [st |-> ProcessNativeEvent(s.st, e),
             reconnect |-> s.reconnect \/ again,
             cleanup |-> s.cleanup \/ (Terminal(e) /\ ~again),
             attempted |-> IF up /\ ~s.inflight THEN FALSE ELSE s.attempted,
             inflight |-> IF up THEN FALSE ELSE s.inflight]

Ended == [Idling EXCEPT !.gen = rt.gen]

\* the drained events, then the one automatic reconnect or the clean-up
AfterEvents(ok) ==
    LET s == FoldLeft(HandleEvent,
                      [st |-> rt.st, reconnect |-> FALSE, cleanup |-> FALSE,
                       attempted |-> rt.attempted, inflight |-> rt.inflight], evq)
        kept == [rt EXCEPT !.st = s.st, !.attempted = s.attempted, !.inflight = s.inflight]
    IN IF s.reconnect
       THEN IF ok THEN [rt |-> [kept EXCEPT !.st = "Connecting", !.gen = @ + 1, !.attempted = TRUE, !.inflight = TRUE,
                                         !.again = @ + 1],
                        nat |-> NatStarted(rt.gen + 1)]
            ELSE [rt |-> [Ended EXCEPT !.gen = @ + 1], nat |-> NatStopped]
       ELSE IF s.cleanup THEN [rt |-> Ended, nat |-> NatStopped]
       ELSE [rt |-> kept, nat |-> nat]

\* a stream without a new frame for ten seconds is ended
AfterStall(r) ==
    IF r.rt.st = "Streaming" /\ r.nat.stalled
    THEN [rt |-> [Idling EXCEPT !.gen = r.rt.gen], nat |-> [r.nat EXCEPT !.st = "idle", !.stalled = FALSE]]
    ELSE r

\* the packet-size policy may learn a smaller size for the next connection
Learns(r, d) ==
    /\ d => /\ May("adapt") /\ r.rt.st = "Streaming" /\ r.rt.desired
            /\ ~r.rt.inflight /\ ~r.rt.deferred /\ r.nat.gen = r.rt.gen

Tick ==
    /\ evq # <<>> \/ nat.stalled \/ May("adapt")
    /\ \E ok \in BOOLEAN, d \in BOOLEAN :
          LET r == AfterStall(AfterEvents(ok))
          IN /\ Learns(r, d)
             /\ r.rt.gen <= MaxGen
             /\ rt' = [r.rt EXCEPT !.deferred = @ \/ d]
             /\ nat' = r.nat
             /\ changed' = (changed \/ r.rt.st # rt.st \/ r.rt.gen # rt.gen)
    /\ evq' = <<>>
    /\ UNCHANGED <<att, watcher, closer, desk, closed, settled, world>>

\* RuntimeCommand::Start for attempt k: refused unless Idle; the native start
\* may fail, and then the actor stops it and is Idle again.
RuntimeStarts(k) ==
    /\ rt.st = "Idle" /\ rt.gen < MaxGen
    /\ rt' = [Idling EXCEPT !.st = "Connecting", !.gen = rt.gen + 1, !.desired = TRUE, !.req = k]
    /\ nat' = NatStarted(rt.gen + 1)
    /\ changed' = TRUE
    /\ UNCHANGED evq

RuntimeRefuses ==
    \/ /\ rt.st # "Idle"
       /\ UNCHANGED <<rt, nat, evq, changed>>
    \/ /\ rt.st = "Idle" /\ rt.gen < MaxGen
       /\ rt' = [Ended EXCEPT !.gen = @ + 1]
       /\ nat' = [NatStopped EXCEPT !.gen = rt.gen + 1]
       /\ evq' = <<>>
       /\ changed' = TRUE

\* RuntimeCommand::Stop
RuntimeStops ==
    /\ rt' = Ended
    /\ nat' = NatStopped
    /\ evq' = <<>>
    /\ changed' = TRUE

NoRuntime == UNCHANGED <<rt, nat, evq, changed>>

-----------------------------------------------------------------------------
(* Start commands.                                                         *)

Running(k) == att[k].pc \notin {"new", "done"}
Watched(k) == watcher[k] # "none"
To(k, pc) == att' = [att EXCEPT ![k].pc = pc]
Cleared(i) == IF desk.active = i THEN None ELSE desk.active

\* start_launch_pc_for_instance stops what runs first; moonlight_start_stream does not
Issue(k, i, kind) ==
    /\ att[k].pc = "new" /\ (k > 1 => att[k - 1].pc # "new")
    /\ closer.pc = "idle" \/ May("second")
    /\ kind = (IF May("direct") THEN "start" ELSE "launch")
    /\ May("other") \/ i = att[k].inst
    /\ \/ May("second")
       \/ (\A j \in Attempts : ~Running(j)) /\ (kind = "start" => rt.st = "Idle")
    /\ May("again") \/ \A j \in Attempts : ~Watched(j)
    /\ att' = [att EXCEPT ![k] = [pc |-> IF kind = "launch" THEN "replace" ELSE "request", inst |-> i, kind |-> kind]]
    /\ NoRuntime
    /\ UNCHANGED <<watcher, desk>>

\* stop_active_stream_if_needed
Replace(k) ==
    /\ att[k].pc = "replace"
    /\ \/ rt.st = "Idle" /\ To(k, "request") /\ NoRuntime
       \/ rt.st # "Idle" /\ To(k, "detach") /\ RuntimeStops
    /\ desk' = [desk EXCEPT !.monitor = FALSE]
    /\ UNCHANGED watcher

ReplaceDetaches(k) ==
    /\ att[k].pc = "detach"
    /\ \/ To(k, "request") /\ desk' = [desk EXCEPT !.surface = FALSE, !.prefs = FALSE, !.win = FALSE]
       \/ May("faults") /\ To(k, "done") /\ UNCHANGED desk
    /\ NoRuntime /\ UNCHANGED watcher

\* start_stream_request, with its one retry after a rebuilt host or a repaired connection
Request(k) ==
    /\ att[k].pc = "request"
    /\ To(k, "window") \/ To(k, "done")
    /\ NoRuntime /\ UNCHANGED <<watcher, desk>>

\* window, surface and the session's preferences
MakeWindow(k) ==
    /\ att[k].pc = "window"
    /\ \/ /\ To(k, "mark")
          /\ desk' = [desk EXCEPT !.win = TRUE, !.surface = TRUE, !.prefs = TRUE]
       \/ May("faults") /\ To(k, "done") /\ \E w \in BOOLEAN : desk' = [desk EXCEPT !.win = w]
    /\ NoRuntime /\ UNCHANGED watcher

\* start_runtime_with_connection_repair
Mark(k) ==
    /\ att[k].pc = "mark"
    /\ To(k, "start")
    /\ desk' = [desk EXCEPT !.active = att[k].inst, !.net = TRUE]
    /\ NoRuntime /\ UNCHANGED watcher

Start(k) ==
    /\ att[k].pc \in {"start", "retry"}
    /\ \/ /\ RuntimeStarts(k)
          /\ watcher' = [watcher EXCEPT ![k] = "watching"]
          /\ To(k, "mic") /\ UNCHANGED desk
       \/ /\ att[k].pc = "start"
          /\ RuntimeRefuses /\ To(k, "repair") /\ UNCHANGED <<watcher, desk>>
       \/ /\ att[k].pc = "retry"
          /\ RuntimeRefuses /\ To(k, "abort")
          /\ desk' = [desk EXCEPT !.net = FALSE, !.active = Cleared(att[k].inst)]
          /\ UNCHANGED watcher

Repair(k) ==
    /\ att[k].pc = "repair"
    /\ \/ To(k, "retry") /\ desk' = [desk EXCEPT !.net = TRUE]
       \/ To(k, "abort") /\ desk' = [desk EXCEPT !.net = FALSE, !.active = Cleared(att[k].inst)]
    /\ NoRuntime /\ UNCHANGED watcher

\* the failed start takes surface, preferences and window away again
Abort(k) ==
    /\ att[k].pc = "abort"
    /\ To(k, "done")
    /\ desk' = [desk EXCEPT !.net = FALSE, !.surface = FALSE, !.prefs = FALSE, !.win = FALSE]
    /\ NoRuntime /\ UNCHANGED watcher

\* schedule_microphone_for_game_stream makes the instance the active one (again)
ScheduleMicrophone(k) ==
    /\ att[k].pc = "mic"
    /\ To(k, "show")
    /\ desk' = [desk EXCEPT !.active = att[k].inst]
    /\ NoRuntime /\ UNCHANGED watcher

Show(k) ==
    /\ att[k].pc = "show"
    /\ To(k, "done")
    /\ \/ desk' = [desk EXCEPT !.monitor = TRUE]
       \/ May("faults") /\ UNCHANGED desk
    /\ NoRuntime /\ UNCHANGED watcher

-----------------------------------------------------------------------------
(* schedule_failed_start_repair                                            *)

ToWatch(k, pc) == watcher' = [watcher EXCEPT ![k] = pc]
StillRequested(k) == desk.active = att[k].inst

Watch(k) ==
    /\ watcher[k] = "watching"
    /\ \/ rt.st = "Idle" /\ ToWatch(k, IF StillRequested(k) THEN "repair" ELSE "none")
       \/ rt.st # "Idle" /\ ToWatch(k, "none")       \* streaming, or 25 seconds have passed
    /\ NoRuntime /\ UNCHANGED <<att, desk>>

WatcherRepairs(k) ==
    /\ watcher[k] = "repair"
    /\ \/ /\ ToWatch(k, IF StillRequested(k) THEN "restart" ELSE "none")
          /\ desk' = [desk EXCEPT !.net = @ \/ StillRequested(k)]
       \/ /\ ToWatch(k, "none")
          /\ desk' = [desk EXCEPT !.net = FALSE, !.active = Cleared(att[k].inst)]
    /\ NoRuntime /\ UNCHANGED att

WatcherRestarts(k) ==
    /\ watcher[k] = "restart"
    /\ \/ RuntimeStarts(k) /\ UNCHANGED desk
       \/ RuntimeRefuses /\ desk' = [desk EXCEPT !.net = FALSE, !.active = Cleared(att[k].inst)]
    /\ ToWatch(k, "none")
    /\ UNCHANGED att

AttemptStep ==
    /\ \E k \in Attempts :
          \/ \E i \in Instances, kind \in {"launch", "start"} : Issue(k, i, kind)
          \/ Replace(k) \/ ReplaceDetaches(k) \/ Request(k) \/ MakeWindow(k)
          \/ Mark(k) \/ Start(k) \/ Repair(k) \/ Abort(k) \/ ScheduleMicrophone(k) \/ Show(k)
          \/ Watch(k) \/ WatcherRepairs(k) \/ WatcherRestarts(k)
    /\ UNCHANGED <<closer, closed, settled, world>>

-----------------------------------------------------------------------------
(* Closing: moonlight_disconnect_stream, the window's close handler, and    *)
(* teardown_local_instance_session before a pause or a destroy.             *)

Issued == {k \in Attempts : att[k].pc # "new"}

Close(kind) ==
    /\ closer.pc = "idle"
    /\ kind = "window" => desk.win
    /\ kind = "teardown" => May("teardown")
    /\ May("impatient") \/ \A k \in Attempts : ~Running(k)
    /\ Issued # {} /\ ~(Issued \subseteq closed)
    /\ closer' = [pc |-> "stop", kind |-> kind]
    /\ closed' = closed \cup Issued
    /\ desk' = IF kind = "teardown" THEN desk ELSE [desk EXCEPT !.monitor = FALSE, !.net = FALSE]
    /\ NoRuntime
    /\ UNCHANGED settled

CloseStops ==
    /\ closer.pc = "stop"
    /\ RuntimeStops
    /\ closer' = [closer EXCEPT !.pc = "detach"]
    /\ UNCHANGED <<desk, closed, settled>>

CloseDetaches ==
    /\ closer.pc = "detach"
    /\ \/ /\ closer' = [closer EXCEPT !.pc = "take"]
          /\ desk' = [desk EXCEPT !.surface = FALSE, !.prefs = FALSE, !.win = FALSE]
       \/ /\ May("faults") /\ closer.kind = "disconnect"
          /\ closer' = [closer EXCEPT !.pc = "idle"]
          /\ UNCHANGED desk
    /\ NoRuntime
    /\ UNCHANGED <<closed, settled>>

\* the disconnect command and the window's handler take the active instance;
\* the teardown before a pause leaves it
CloseTakes ==
    /\ closer.pc = "take"
    /\ closer' = [closer EXCEPT !.pc = "idle"]
    /\ IF closer.kind = "teardown" THEN UNCHANGED <<desk, settled>>
       ELSE /\ desk' = [desk EXCEPT !.active = None]
            /\ settled' = {k \in closed : watcher[k] # "restart" /\ rt.req # k}
    /\ NoRuntime
    /\ UNCHANGED closed

CloseStep ==
    /\ (\E kind \in {"disconnect", "window", "teardown"} : Close(kind))
          \/ CloseStops \/ CloseDetaches \/ CloseTakes
    /\ UNCHANGED <<att, watcher, world>>

\* main.rs: a task copies "not Idle" into the network flag
FollowState ==
    /\ changed
    /\ desk' = [desk EXCEPT !.net = (rt.st # "Idle")]
    /\ changed' = FALSE
    /\ UNCHANGED <<rt, nat, evq, att, watcher, closer, closed, settled, world>>

Next == NativeStep \/ Tick \/ AttemptStep \/ CloseStep \/ FollowState

Spec == Init /\ [][Next]_vars

-----------------------------------------------------------------------------
\* A stream whose close has run to its end stays closed: neither the repair of its
\* start nor the automatic reconnect nor an event that was still queued brings it back.
\* A watcher that passed its last check before the close ended, a close during the start
\* command and a start while the last one is still watched are outside of it.
ClosedStaysClosed ==
    ~May("again") /\ ~May("impatient") => \A k \in settled : rt.req # k

\* The reconnect is one-shot: one accepted start is never reconnected twice, although
\* the connection that comes up in between ends the reconnect in flight.
ReconnectsOnce == rt.again <= 1

\* The actor ends or replaces a native session that is still up only when its frames
\* have stalled or a command asks for it: a report of an earlier session that was queued
\* before this one started ends nothing.  One that is queued after it carries the
\* generation of the new session and ends it ("overtaken").
LiveSessionKept ==
    ~May("overtaken") /\ nat.st # "idle" /\ evq' = <<>> /\ UNCHANGED <<att, watcher, closer>>
        => nat.stalled \/ (nat'.st # "idle" /\ nat'.gen = nat.gen)

\* Once the follower has caught up, a stream that is up keeps the flag that holds
\* automatic transport changes back, through its reconnect too; only a second start
\* that the runtime refuses, or the watcher of a replaced stream, takes the flag away.
StreamKeepsNetwork ==
    ~May("second") /\ ~May("again") /\ ~changed
        /\ rt.st # "Idle" /\ closer.pc = "idle" => desk.net

\* The four together.
StreamSound ==
    [][ClosedStaysClosed' /\ ReconnectsOnce' /\ LiveSessionKept /\ StreamKeepsNetwork]_vars
=============================================================================
