--------------------------- MODULE NetworkMonitor ---------------------------
(***************************************************************************)
(* The quality monitor of a connection: the task of the app that sends     *)
(* authenticated UDP probes and reports what came back over a WebSocket,   *)
(* and the session registry of the host's network agent that keeps the     *)
(* window of samples, classifies it and echoes the batch it has taken in.  *)
(*                                                                         *)
(* UDP loses and delays; a WebSocket breaks with messages under way, and   *)
(* what the host had already received of a broken one is still processed   *)
(* after the app has connected again.  The agent may restart or evict a    *)
(* session.  Start and stop of the monitor are serialised by a lock and    *)
(* wait for the old task.  One tick is a second; ages stop at the largest  *)
(* limit that reads them.                                                  *)
(***************************************************************************)
EXTENDS Naturals, FiniteSets, Sequences, SequencesExt, FiniteSetsExt

CONSTANTS MaxSessions, MaxProbes,
          PROBE_TIMEOUT, Stale, CONNECTION_LOST_AFTER, REARM_AFTER,
          BAD_PERSISTENCE, RECOVERY_PERSISTENCE, MAX_REPORT_SAMPLES,
          MaxTroubles,
          Worlds   \* which of "break", "evict", "udp", "switch", "again", "alarm", "host",
                   \* "consent", "slow"

VARIABLES
    monitor,   \* the app's task and its session
    command,   \* the start or stop that holds the lifecycle lock
    airborne,  \* probes and acknowledgements under way
    uplink, ghost, downlink,  \* reports sent, reports of the broken WebSocket, messages to the app
    registry,  \* session -> what the agent keeps of it
    latest,    \* latest_stats
    observed,  \* what reached the feedback accumulator
    failSafe,  \* FailSafeState
    pathway,   \* the route of the instance
    troubles, world

watched == <<monitor, command, airborne, uplink, ghost, downlink, registry, latest, observed,
             failSafe, pathway, troubles>>
vars == <<watched, world>>

May(b) == b \in world
Sessions == 1..MaxSessions
Probes == IF May("alarm") THEN MaxProbes + 2 ELSE IF May("again") THEN 1 ELSE MaxProbes
None == 0
Never == 99
Older(age, limit) == IF age >= limit THEN age ELSE age + 1

NoMonitor == [session |-> None, pc |-> "ended", cancelled |-> FALSE, udp |-> FALSE, next |-> 1,
              pending |-> {}, samples |-> <<>>, batches |-> <<>>, reported |-> FALSE, segment |-> 0]
NewMonitor(s) == [NoMonitor EXCEPT !.session = s, !.pc = "connect"]
NewFailSafe == [acked |-> FALSE, quiet |-> 0, lost |-> FALSE, recovering |-> Never,
                sinceAlarm |-> Never, spaced |-> TRUE]
NoSession == [known |-> FALSE]
NewSession == [known |-> TRUE, window |-> <<>>, batch |-> None, recent |-> {},
               published |-> "warming", badFor |-> Never, wellFor |-> Never, eligible |-> TRUE,
               sinceAlert |-> Never, spaced |-> TRUE]

Init ==
    /\ world \in Worlds
    /\ monitor = NoMonitor
    /\ command = "idle"
    /\ airborne = {}
    /\ uplink = <<>> /\ ghost = <<>> /\ downlink = <<>>
    /\ registry = [s \in Sessions |-> NoSession]
    /\ latest = None
    /\ observed = {}
    /\ failSafe = NewFailSafe
    /\ pathway = "direct"
    /\ troubles = 0

wires == <<airborne, uplink, ghost, downlink>>

\* What a packet says once it is decoded and its tag is right.
Packet(kind, s, n) == [kind |-> kind, session |-> s, seq |-> n]
acknowledge_probe(p) == Packet("ack", p.session, p.seq)
IsAck(p) == p.kind = "ack"
-----------------------------------------------------------------------------
(* Commands *)

\* stop_current takes the channel and the task and waits for the task.
Command(c) ==
    /\ command = "idle"
    /\ c = "start" => monitor.session < MaxSessions /\ (monitor.session = None \/ May("again"))
    /\ command' = c
    /\ monitor' = [monitor EXCEPT !.cancelled = monitor.pc # "ended"]
    /\ UNCHANGED <<wires, registry, latest, observed, failSafe, pathway, troubles, world>>

TaskOver == monitor.pc = "ended"

CommandEnds ==
    /\ command # "idle" /\ TaskOver
    /\ latest' = None
    /\ command' = "idle"
    /\ IF command = "start"
       THEN \* or normalize_target_host refuses the target
            \/ monitor' = NewMonitor(monitor.session + 1) /\ failSafe' = NewFailSafe
            \/ UNCHANGED <<monitor, failSafe>>
       ELSE UNCHANGED <<monitor, failSafe>>
    /\ UNCHANGED <<wires, registry, observed, pathway, troubles, world>>

-----------------------------------------------------------------------------
(* The task *)

\* Any await of the task may find the cancellation first.
TaskCancelled ==
    /\ monitor.cancelled /\ monitor.pc # "ended"
    /\ monitor' = [monitor EXCEPT !.pc = "ended"]
    /\ uplink' = <<>> /\ downlink' = <<>> /\ ghost' = uplink
    /\ UNCHANGED <<command, airborne, registry, latest, observed, failSafe, pathway, troubles, world>>

\* FailSafeState::tick; an alarm is raised once, until the recovery.
FailSafeTicked(f) ==
    IF f.quiet < CONNECTION_LOST_AFTER THEN f
    ELSE IF f.lost THEN [f EXCEPT !.recovering = Never]
    ELSE [f EXCEPT !.recovering = Never, !.lost = TRUE, !.sinceAlarm = 0,
                   !.spaced = @ /\ f.sinceAlarm >= REARM_AFTER + CONNECTION_LOST_AFTER]

\* FailSafeState::observe_valid_ack
FailSafeAcked(f) ==
    LET heard == [f EXCEPT !.acked = TRUE, !.quiet = 0]
        interrupted == ~f.acked \/ f.quiet >= CONNECTION_LOST_AFTER
        since == IF f.recovering = Never THEN 0 ELSE f.recovering
    IN  IF ~f.lost THEN heard
        ELSE IF interrupted THEN [heard EXCEPT !.recovering = 0]
        ELSE IF since < REARM_AFTER THEN [heard EXCEPT !.recovering = since]
        ELSE [heard EXCEPT !.lost = FALSE, !.recovering = Never]

Alive == monitor.pc # "ended"
Connected == monitor.pc = "connected"

ConnectFails ==
    /\ monitor.pc = "connect" /\ May("break") /\ troubles < MaxTroubles
    /\ troubles' = troubles + 1
    /\ monitor' = [monitor EXCEPT !.pc = "wait"]
    /\ failSafe' = FailSafeTicked(failSafe)
    /\ UNCHANGED <<command, wires, registry, latest, observed, pathway, world>>

\* wait_to_retry
RetryConnect ==
    /\ monitor.pc = "wait"
    /\ monitor' = [monitor EXCEPT !.pc = "connect"]
    /\ UNCHANGED <<command, wires, registry, latest, observed, failSafe, pathway, troubles, world>>

Expired == {p \in monitor.pending : p.age >= PROBE_TIMEOUT}
LostOnes == SetToSortSeq({[seq |-> p.seq, lost |-> TRUE, age |-> 0] : p \in Expired},
                         LAMBDA a, b : a.seq < b.seq)
expire_pending(m) == [m EXCEPT !.pending = @ \ Expired, !.samples = @ \o LostOnes]

\* A probe that cannot be sent takes its number and leaves the socket closed.
ProbeTick ==
    /\ Connected /\ ~May("host") /\ (May("alarm") => monitor.pending = Expired)
    /\ LET m == expire_pending(monitor)
       IN  IF ~monitor.udp
           THEN Expired # {} /\ monitor' = m /\ UNCHANGED <<airborne, troubles>>
           ELSE /\ monitor.next <= Probes
                /\ \/ /\ monitor' = [m EXCEPT !.next = @ + 1,
                                              !.pending = @ \cup {[seq |-> monitor.next, age |-> 0]}]
                      /\ airborne' = airborne \cup {Packet("probe", monitor.session, monitor.next)}
                      /\ UNCHANGED troubles
                   \/ /\ May("udp") /\ troubles < MaxTroubles
                      /\ troubles' = troubles + 1
                      /\ monitor' = [m EXCEPT !.next = @ + 1, !.udp = FALSE]
                      /\ UNCHANGED airborne
    /\ UNCHANGED <<command, uplink, ghost, downlink, registry, latest, observed, failSafe, pathway, world>>

RetryUdp ==
    /\ Connected /\ ~monitor.udp
    /\ monitor' = [monitor EXCEPT !.udp = TRUE]
    /\ UNCHANGED <<command, wires, registry, latest, observed, failSafe, pathway, troubles, world>>

\* acknowledge_registered_probe: an unknown session gets no answer.
Acknowledge(p) ==
    /\ p \in airborne /\ ~IsAck(p)
    /\ airborne' = (airborne \ {p}) \cup
          (IF registry[p.session].known THEN {acknowledge_probe(p)} ELSE {})
    /\ UNCHANGED <<monitor, command, uplink, ghost, downlink, registry, latest, observed, failSafe,
                   pathway, troubles, world>>

Lose(p) ==
    /\ p \in airborne
    /\ airborne' = airborne \ {p}
    /\ UNCHANGED <<monitor, command, uplink, ghost, downlink, registry, latest, observed, failSafe,
                   pathway, troubles, world>>

\* validate_ack, then the pending probe becomes a sample; a late answer is ignored.
ReceiveAck(a) ==
    /\ a \in airborne /\ IsAck(a) /\ Connected /\ monitor.udp
    /\ airborne' = airborne \ {a}
    /\ LET mine == {p \in monitor.pending : p.seq = a.seq}
       IN  IF a.session # monitor.session \/ mine = {}
           THEN UNCHANGED <<monitor, failSafe>>
           ELSE /\ monitor' = [monitor EXCEPT !.pending = @ \ mine,
                                  !.samples = Append(@, [seq |-> a.seq, lost |-> FALSE, age |-> 0])]
                /\ failSafe' = FailSafeAcked(failSafe)
    /\ UNCHANGED <<command, uplink, ghost, downlink, registry, latest, observed, pathway, troubles, world>>

Heard(samples) == {samples[i].seq : i \in {j \in DOMAIN samples : ~samples[j].lost}}
Youngest(samples) ==
    LET i == CHOOSE j \in DOMAIN samples : ~samples[j].lost /\ samples[j].seq = Max(Heard(samples))
    IN  samples[i]

\* A batch has the number of its first sample; without consent it has none.
BatchId(samples) == IF May("consent") THEN samples[1].seq ELSE None
ReportTick ==
    /\ Connected /\ ~May("alarm")
    /\ LET m == expire_pending(monitor)
           n == Min({MAX_REPORT_SAMPLES, Len(m.samples)})
           part == SubSeq(m.samples, 1, n)
           id == BatchId(part)
           kept == SelectSeq(m.batches, LAMBDA b : b.age <= Stale)
       IN  /\ n > 0
           /\ uplink' = Append(uplink, [session |-> monitor.session, batch |-> id, samples |-> part])
           /\ monitor' = [m EXCEPT
                 !.samples = SubSeq(@, n + 1, Len(@)),
                 !.reported = TRUE,
                 !.batches = IF id = None \/ Heard(part) = {} THEN @
                             ELSE Append(kept, [id |-> id, seq |-> Max(Heard(part)),
                                                age |-> Youngest(part).age, route |-> pathway])]
    /\ UNCHANGED <<command, airborne, ghost, downlink, registry, latest, observed, failSafe, pathway,
                   troubles, world>>

HealthTick ==
    /\ Connected /\ failSafe' = FailSafeTicked(failSafe)
    /\ failSafe' # failSafe
    /\ UNCHANGED <<monitor, command, wires, registry, latest, observed, pathway, troubles, world>>

\* What the task does when the WebSocket is gone; the host may still have its reports.
Broken ==
    /\ monitor' = [monitor EXCEPT !.pc = "wait", !.udp = FALSE]
    /\ failSafe' = FailSafeTicked(failSafe)
    /\ uplink' = <<>> /\ downlink' = <<>>

Disconnect ==
    /\ Connected /\ May("break") /\ troubles < MaxTroubles
    /\ troubles' = troubles + 1
    /\ Broken
    /\ \E n \in 0..Len(uplink) : ghost' = SubSeq(uplink, 1, n)
    /\ UNCHANGED <<command, airborne, registry, latest, observed, pathway, world>>

\* collect_feedback: only an echo of a batch sent on this connection, unmixed and recent.
Matches(b, m) == b.seq = m.newest /\ b.age <= Stale
Collected(m) ==
    LET hits == {i \in DOMAIN monitor.batches : monitor.batches[i].id = m.batch}
    IN  IF m.batch = None \/ hits = {} THEN UNCHANGED <<monitor, observed>>
        ELSE LET b == monitor.batches[Min(hits)]
             IN  /\ monitor' = [monitor EXCEPT !.batches = SelectSeq(@, LAMBDA x : x.id # m.batch)]
                 /\ observed' = IF ~Matches(b, m) THEN observed
                                ELSE observed \cup {[session |-> monitor.session, batch |-> b.id,
                                        upTo |-> m.newest, promised |-> b.seq, count |-> m.count,
                                        segment |-> monitor.segment, sent |-> b.id,
                                        route |-> IF b.route = pathway THEN pathway ELSE "mixed"]}

\* forward_agent_text
AgentText ==
    /\ Connected /\ downlink # <<>>
    /\ LET m == Head(downlink)
       IN  CASE m.type = "stats" ->
                  /\ downlink' = Tail(downlink)
                  /\ IF m.session # monitor.session THEN UNCHANGED <<monitor, observed, latest>>
                     ELSE /\ latest' = IF monitor.reported THEN m.session ELSE latest
                          /\ Collected(m)
                  /\ UNCHANGED <<failSafe, uplink, ghost>>
             [] m.type = "replaced" ->   \* the agent then closes the connection
                  Broken /\ ghost' = <<>> /\ UNCHANGED <<latest, observed>>
    /\ UNCHANGED <<command, airborne, registry, pathway, troubles, world>>

-----------------------------------------------------------------------------
(* The agent *)

\* record_batch: a batch that was taken in is not taken in again.
Anew(s, id) == id = None \/ id \notin s.recent
TakenIn(s, r) ==
    IF ~Anew(s, r.batch) THEN s
    ELSE [s EXCEPT !.window = @ \o [i \in DOMAIN r.samples |-> [seq |-> r.samples[i].seq,
                                                                lost |-> r.samples[i].lost]],
                   !.batch = r.batch,
                   !.recent = IF r.batch = None THEN @ ELSE @ \cup {r.batch}]

Newest(w) == IF Heard(w) = {} THEN None ELSE Max(Heard(w))
StatsOf(s, id) == [type |-> "stats", session |-> id, batch |-> s.batch, newest |-> Newest(s.window),
                   count |-> Cardinality(Heard(s.window))]

\* What the statistics of the window may come to.
Qualities == IF May("host") THEN {"warming", "fine", "bad"} ELSE {"fine"}

\* StateMachine::evaluate
Evaluated(s, candidate) ==
    IF s.published = "bad" THEN
        IF candidate = "bad" THEN [s EXCEPT !.wellFor = Never]
        ELSE LET since == IF s.wellFor = Never THEN 0 ELSE s.wellFor
             IN  IF since < RECOVERY_PERSISTENCE THEN [s EXCEPT !.wellFor = since]
                 ELSE [s EXCEPT !.published = candidate, !.badFor = Never, !.wellFor = Never,
                                !.eligible = TRUE]
    ELSE IF candidate = "bad" THEN
        LET since == IF s.badFor = Never THEN 0 ELSE s.badFor
        IN  IF since < BAD_PERSISTENCE THEN [s EXCEPT !.badFor = since]
            ELSE [s EXCEPT !.published = "bad", !.badFor = since, !.eligible = FALSE,
                           !.sinceAlert = IF s.eligible THEN 0 ELSE @,
                           !.spaced = @ /\ (s.eligible =>
                                s.sinceAlert >= RECOVERY_PERSISTENCE + BAD_PERSISTENCE)]
    ELSE [s EXCEPT !.badFor = Never, !.wellFor = Never, !.published = candidate]

\* evaluate, and send_evaluation after what was sent before.
Answer(id, session, sent) ==
    \E q \in Qualities :
        LET s == Evaluated(session, q)
        IN  /\ registry' = [registry EXCEPT ![id] = s]
            /\ downlink' = Append(sent, StatsOf(s, id))

\* connect_udp, connect_async and the auth message; the agent registers the session (the
\* same token keeps what it has) and answers, and run_connected starts with nothing pending.
Registered(s) == IF registry[s].known THEN registry[s] ELSE NewSession
Connect ==
    /\ monitor.pc = "connect"
    /\ monitor' = [monitor EXCEPT !.pc = "connected", !.udp = TRUE, !.pending = {}, !.samples = <<>>,
                                  !.batches = <<>>, !.segment = @ + 1]
    /\ Answer(monitor.session, Registered(monitor.session), <<>>)
    /\ uplink' = <<>>
    /\ UNCHANGED <<command, airborne, ghost, latest, observed, failSafe, pathway, troubles, world>>

\* handle_connection takes a report in and answers with an evaluation.
HostReport ==
    /\ uplink # <<>> /\ Connected
    /\ LET id == monitor.session
           r == Head(uplink)
       IN  IF ~registry[id].known
           THEN downlink' = Append(downlink, [type |-> "replaced"]) /\ uplink' = <<>> /\ UNCHANGED registry
           ELSE Answer(id, TakenIn(registry[id], r), downlink) /\ uplink' = Tail(uplink)
    /\ UNCHANGED <<monitor, command, airborne, ghost, latest, observed, failSafe, pathway, troubles, world>>

\* The handler of the broken connection goes on with what it has received; its answers
\* reach nobody.
GhostReport ==
    /\ ghost # <<>>
    /\ LET id == Head(ghost).session
       IN  \E q \in Qualities :
              registry' = IF registry[id].known
                          THEN [registry EXCEPT ![id] = Evaluated(TakenIn(@, Head(ghost)), q)]
                          ELSE registry
    /\ ghost' = Tail(ghost)
    /\ UNCHANGED <<monitor, command, airborne, uplink, downlink, latest, observed, failSafe, pathway,
                   troubles, world>>

\* The handler's ticker.
Heartbeat ==
    /\ Connected /\ downlink = <<>> /\ ~May("alarm")
    /\ LET id == monitor.session
       IN  IF ~registry[id].known
           THEN downlink' = Append(downlink, [type |-> "replaced"]) /\ UNCHANGED registry
           ELSE Answer(id, registry[id], downlink)
    /\ UNCHANGED <<monitor, command, airborne, uplink, ghost, latest, observed, failSafe, pathway,
                   troubles, world>>

\* Probe sessions of a path evaluation push the oldest session out, or the agent restarts.
Evict ==
    /\ May("evict") /\ troubles < MaxTroubles
    /\ \E s \in Sessions : registry[s].known /\ registry' = [registry EXCEPT ![s] = NoSession]
    /\ troubles' = troubles + 1
    /\ UNCHANGED <<monitor, command, wires, latest, observed, failSafe, pathway, world>>

-----------------------------------------------------------------------------
Aged(s) == [s EXCEPT !.badFor = IF @ = Never THEN @ ELSE Older(@, BAD_PERSISTENCE),
                     !.wellFor = IF @ = Never THEN @ ELSE Older(@, RECOVERY_PERSISTENCE),
                     !.sinceAlert = IF @ = Never THEN @
                                    ELSE Older(@, RECOVERY_PERSISTENCE + BAD_PERSISTENCE)]
Tick ==
    /\ Alive
    /\ monitor' = [monitor EXCEPT
          !.pending = {[p EXCEPT !.age = Older(@, PROBE_TIMEOUT)] : p \in @},
          !.samples = IF May("slow") THEN [i \in DOMAIN @ |-> [@[i] EXCEPT !.age = Older(@, Stale + 1)]] ELSE @,
          !.batches = IF May("slow") THEN [i \in DOMAIN @ |-> [@[i] EXCEPT !.age = Older(@, Stale + 1)]] ELSE @]
    /\ failSafe' = IF ~May("alarm") THEN failSafe
                   ELSE [failSafe EXCEPT
          !.quiet = Older(@, CONNECTION_LOST_AFTER),
          !.recovering = IF @ = Never THEN @ ELSE Older(@, REARM_AFTER),
          !.sinceAlarm = IF @ = Never THEN @ ELSE Older(@, REARM_AFTER + CONNECTION_LOST_AFTER)]
    /\ registry' = IF May("host")
                   THEN [s \in Sessions |-> IF registry[s].known THEN Aged(registry[s]) ELSE registry[s]]
                   ELSE registry
    /\ UNCHANGED <<command, wires, latest, observed, pathway, troubles, world>>

SwitchRoute ==
    /\ May("switch") /\ pathway = "direct"
    /\ pathway' = "turn"
    /\ UNCHANGED <<monitor, command, wires, registry, latest, observed, failSafe, troubles, world>>

ClientStep ==
    \/ CommandEnds \/ TaskCancelled \/ Connect \/ RetryConnect \/ AgentText
    \/ ReportTick \/ HealthTick \/ RetryUdp
    \/ \E a \in airborne : ReceiveAck(a)
HostStep == HostReport \/ GhostReport

Next ==
    \/ ClientStep \/ HostStep \/ Heartbeat \/ ProbeTick
    \/ \E c \in {"start", "stop"} : Command(c)
    \/ ConnectFails \/ Disconnect \/ Evict \/ SwitchRoute \/ Tick
    \/ \E p \in airborne : Acknowledge(p) \/ Lose(p)

Spec == Init /\ [][Next]_vars

\* The runtime polls the task and the agent's handlers; their tickers tick.
FairSpec == Spec /\ WF_watched(ClientStep) /\ WF_watched(HostStep) /\ WF_watched(Heartbeat)
-----------------------------------------------------------------------------
(* A probe is counted once: it is either answered in time or lost, however *)
(* late its answer comes, and no sequence number comes back after a        *)
(* reconnection, so the agent's window of a session never holds a number   *)
(* twice.  And what reaches the feedback of a rental was measured: it is   *)
(* the echo of a batch of that connection, once, and stands for exactly    *)
(* the newest answer that batch reported.                                  *)
MeasuredOnce ==
    /\ \A s \in Sessions : registry[s].known =>
          \A i, j \in DOMAIN registry[s].window :
             registry[s].window[i].seq = registry[s].window[j].seq => i = j
    /\ \A o \in observed : o.upTo = o.promised
    /\ \A o, p \in observed : o.session = p.session /\ o.batch = p.batch => o = p

(* Alarms do not repeat: the app's connection-lost alarm comes again only  *)
(* after a recovery of REARM_AFTER and a new silence, the agent's alert    *)
(* only after RECOVERY_PERSISTENCE of better and BAD_PERSISTENCE of bad.   *)
AlertsSpaced == failSafe.spaced /\ \A s \in Sessions : registry[s].known => registry[s].spaced

(* The statistics shown are those of the running session: nothing of an    *)
(* earlier one, or of a stopped monitor, is left or comes in late.         *)
SnapshotIsOurs == latest # None => latest = monitor.session /\ (Alive \/ command # "idle")

(* The three together.                                                     *)
MonitorSound == MeasuredOnce /\ AlertsSpaced /\ SnapshotIsOurs

(* A monitor whose session the agent has lost is registered again, unless  *)
(* it is stopped.                                                          *)
Watching == Alive /\ ~monitor.cancelled /\ troubles = MaxTroubles
Reregistered ==
    \/ monitor.session # None /\ registry[monitor.session].known
    \/ monitor.cancelled \/ ~Alive
=============================================================================
