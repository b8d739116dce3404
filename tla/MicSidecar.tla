---------------------------- MODULE MicSidecar ----------------------------
(***************************************************************************)
(* The media sidecar of mic-sidecar/src/main.rs: a daemon that handles one *)
(* request of the desktop at a time and, between requests, ticks: it takes *)
(* the errors of the capture stream, watches the pipeline and the audio    *)
(* level, retries a capture that failed and follows device changes.        *)
(*                                                                         *)
(* The daemon is one thread, so a request or a tick is one action.  The    *)
(* capture callbacks run on other threads and only send error signals.     *)
(* Time is the environment's choice: whether the retry interval, the poll  *)
(* interval and the silence interval have passed when a tick runs.         *)
(***************************************************************************)
EXTENDS Naturals, Sequences

CONSTANTS
    Devices,       \* input devices
    MaxChanges,    \* bound: devices plugged, unplugged or made default
    MaxFaults,     \* bound: stream errors, failed starts, pipeline errors
    MaxRequests,   \* bound: requests of the desktop
    Worlds         \* {"silence"} and/or {"pipeline"}: which faults occur

VARIABLES
    daemon,        \* the fields of Daemon and of its capture controller
    signals,       \* capture errors sent and not yet received
    plugged,       \* the devices CPAL lists, and the default one
    asked,         \* requests handled
    changes, faults,
    world

sideVars == <<daemon, signals, plugged, asked, changes, faults>>
vars == <<sideVars, world>>

None == "none"

May(b) == b \in world

NewDaemon ==
    [state |-> "Idle", health |-> "Healthy", error |-> None, pipeline |-> FALSE,
     selected |-> None, active |-> None, capture |-> None, started |-> FALSE,
     silent |-> FALSE, muted |-> FALSE]

Init ==
    /\ world \in Worlds
    /\ daemon = NewDaemon
    /\ signals = <<>>
    /\ plugged \in {[set |-> Devices, default |-> d] : d \in Devices}
    /\ asked = 0
    /\ changes = 0
    /\ faults = 0

(***************************************************************************)
(* StateMachine: an invalid transition is refused and the callers ignore   *)
(* the refusal, so the state stays what it was.                            *)
(***************************************************************************)
Valid(from, to) ==
    \/ from = to
    \/ to = "Shutdown"
    \/ <<from, to>> \in
         {<<"Idle", "Starting">>,
          <<"Starting", "Running">>, <<"Starting", "Recovering">>, <<"Starting", "Idle">>,
          <<"Running", "Recovering">>, <<"Running", "Stopping">>,
          <<"Recovering", "Running">>, <<"Recovering", "Stopping">>,
          <<"Stopping", "Idle">>}

Transition(d, to) == IF Valid(d.state, to) THEN [d EXCEPT !.state = to] ELSE d

Healthy(d) == [d EXCEPT !.health = "Healthy", !.error = None]

Degraded(d, error) == [d EXCEPT !.health = "Degraded", !.error = error]

Failed(d, error) == [d EXCEPT !.health = "Failed", !.error = error]

(***************************************************************************)
(* The capture controller.                                                 *)
(***************************************************************************)
\* start_native: the requested device when it is listed, else the default.
Resolve(selected) == IF selected \in plugged.set THEN selected ELSE plugged.default

UsedFallback(selected) == selected # None /\ selected \notin plugged.set

ClearCaptureHealth(d) == [d EXCEPT !.started = FALSE, !.silent = FALSE]

StopCapture(d) == ClearCaptureHealth([d EXCEPT !.capture = None, !.active = None])

CaptureStarted(d) ==
    LET device == Resolve(d.selected)
        on == [d EXCEPT !.capture = device, !.active = device, !.started = TRUE, !.silent = FALSE]
    IN  IF UsedFallback(d.selected)
        THEN Degraded(Transition(on, "Recovering"), "fallback")
        ELSE Healthy(Transition(on, "Running"))

CaptureFailed(d) == Degraded(Transition(StopCapture(d), "Recovering"), "capture")

\* restart_capture; a device that cannot be opened is the environment's choice.
RestartCapture(d, opens) == IF opens /\ plugged.set # {} THEN CaptureStarted(d) ELSE CaptureFailed(d)

\* Opening fails when nothing is plugged in, or as one of the faults.
Opens(opens) ==
    \/ /\ opens
       /\ UNCHANGED faults
    \/ /\ ~opens
       /\ faults < MaxFaults
       /\ faults' = faults + 1

(***************************************************************************)
(* Requests.                                                               *)
(***************************************************************************)
Stopped(d) ==
    IF ~d.pipeline THEN d
    ELSE Healthy(Transition([StopCapture(Transition(d, "Stopping")) EXCEPT !.pipeline = FALSE], "Idle"))

\* handle_request: one request is answered before the next is read.
Request ==
    /\ daemon.state # "Shutdown"
    /\ asked < MaxRequests
    /\ asked' = asked + 1
    /\ UNCHANGED <<signals, plugged, changes, world>>

\* StartSession: the pipeline first, then the capture; a capture that does not
\* start ends the session again.
StartSession(opens) ==
    /\ Request
    /\ ~daemon.pipeline
    /\ Opens(opens)
    /\ LET up == [Transition(daemon, "Starting") EXCEPT !.pipeline = TRUE]
           on == RestartCapture(up, opens)
       IN  daemon' = IF on.capture = None THEN Failed(Stopped(on), "capture") ELSE on

\* StartSession when GStreamer refuses the pipeline.
PipelineRefused ==
    /\ Request
    /\ May("pipeline")
    /\ ~daemon.pipeline
    /\ faults < MaxFaults
    /\ faults' = faults + 1
    /\ daemon' = Failed(Transition(Transition(daemon, "Starting"), "Idle"), "pipeline")

StopSession ==
    /\ Request
    /\ daemon' = Stopped(daemon)
    /\ UNCHANGED faults

\* SelectDevice: remembered, and followed at once when a session is active.
SelectDevice(device, opens) ==
    /\ Request
    /\ LET d == [daemon EXCEPT !.selected = device]
       IN  IF d.pipeline
           THEN Opens(opens) /\ daemon' = RestartCapture(d, opens)
           ELSE opens /\ daemon' = d /\ UNCHANGED faults

Mute(muted) ==
    /\ Request
    /\ daemon' = [daemon EXCEPT !.muted = muted]
    /\ UNCHANGED faults

\* Shutdown, a closed stdin or a signal.
Shutdown ==
    /\ Request
    /\ daemon' = Transition(Stopped(daemon), "Shutdown")
    /\ UNCHANGED faults

(***************************************************************************)
(* The tick.                                                               *)
(***************************************************************************)
\* Errors sent by any capture stream, the replaced ones included: the signal
\* does not say which stream it comes from.
TakeSignals(d) == IF signals = <<>> THEN d ELSE Degraded(Transition(StopCapture(d), "Recovering"), "stream")

TakePipelineError(d, broken) == IF broken /\ d.pipeline THEN Failed(d, "pipeline") ELSE d

\* update_capture_health.
CaptureHealth(d, level) ==
    CASE ~d.started -> d
      [] d.started /\ level = "audio" ->
             IF d.silent /\ d.health = "Degraded" /\ d.error = "silence"
             THEN Healthy([d EXCEPT !.silent = FALSE])
             ELSE [d EXCEPT !.silent = FALSE]
      [] d.started /\ level = "silentLong" /\ ~d.silent /\ d.state = "Running" ->
             Degraded([d EXCEPT !.silent = TRUE], "silence")
      [] OTHER -> d

\* A device change the poll notices: the preferred device is not the one that
\* is captured or is gone; without a preference, the default moved.
ShouldRestart(d) ==
    IF d.selected # None THEN d.capture # d.selected \/ d.selected \notin plugged.set
    ELSE plugged.default # d.capture

\* The rest of the tick, with a session: retry, else poll the devices.
Follow(d, retryDue, pollDue, opens) ==
    IF ~d.pipeline THEN d
    ELSE IF d.capture = None /\ retryDue THEN RestartCapture(d, opens)
    ELSE IF pollDue /\ ShouldRestart(d) THEN RestartCapture(d, opens)
    ELSE d

Tick(level, retryDue, pollDue, broken, opens) ==
    /\ daemon.state # "Shutdown"
    /\ retryDue => signals = <<>>
    /\ broken => May("pipeline") /\ faults < MaxFaults /\ opens
    /\ level # "quiet" => May("silence")
    /\ ~opens => faults < MaxFaults
    /\ LET d == TakePipelineError(TakeSignals(daemon), broken)
           seen == IF d.pipeline THEN CaptureHealth(d, level) ELSE d
       IN  daemon' = Follow(seen, retryDue, pollDue, opens)
    /\ signals' = <<>>
    /\ faults' = IF broken \/ ~opens THEN faults + 1 ELSE faults
    /\ UNCHANGED <<plugged, asked, changes, world>>

(***************************************************************************)
(* The environment: devices come and go, streams fail.                     *)
(***************************************************************************)
DevicesChange ==
    /\ changes < MaxChanges
    /\ changes' = changes + 1
    /\ \E set \in SUBSET Devices :
           \E default \in (IF set = {} THEN {None} ELSE set) :
               /\ plugged' = [set |-> set, default |-> default]
               /\ plugged' # plugged
    /\ UNCHANGED <<daemon, signals, asked, faults, world>>

StreamFails ==
    /\ daemon.capture # None
    /\ faults < MaxFaults
    /\ faults' = faults + 1
    /\ signals' = Append(signals, daemon.capture)
    /\ UNCHANGED <<daemon, plugged, asked, changes, world>>

Next ==
    \/ \E opens \in BOOLEAN : StartSession(opens)
    \/ PipelineRefused
    \/ StopSession
    \/ \E device \in Devices \cup {None}, opens \in BOOLEAN : SelectDevice(device, opens)
    \/ \E muted \in BOOLEAN : Mute(muted)
    \/ Shutdown
    \/ \E level \in {"quiet", "audio", "silentLong"}, retryDue, pollDue, broken, opens \in BOOLEAN :
           Tick(level, retryDue, pollDue, broken, opens)
    \/ DevicesChange
    \/ StreamFails

\* The loop ticks at least every 100 ms and the intervals do pass.
DueTick == \E retryDue \in BOOLEAN :
               /\ retryDue = (signals = <<>>)
               /\ Tick("quiet", retryDue, TRUE, FALSE, TRUE)

Spec == Init /\ [][Next]_vars

FairSpec == Spec /\ WF_sideVars(DueTick)

(***************************************************************************)
(* Properties.                                                             *)
(***************************************************************************)
\* The reported state and the session go together at every request and tick,
\* although every caller ignores a refused transition and although an error
\* of a stream may be received after its session ended: Running or Recovering
\* while a pipeline exists, Idle or Shutdown when none does, and a device is
\* captured only for a session.
StateFollowsSession ==
    /\ daemon.pipeline <=> daemon.state \in {"Running", "Recovering"}
    /\ daemon.capture # None => daemon.pipeline
    /\ daemon.capture = daemon.active

=============================================================================
