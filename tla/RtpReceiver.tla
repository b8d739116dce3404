---------------------------- MODULE RtpReceiver ----------------------------
(***************************************************************************)
(* The bookkeeping of vm-cloud-mic-agent/src/receiver.rs: the packet probe *)
(* (inspect_rtp_packet and RtpTracker::observe, which decides what reaches *)
(* the jitter buffer and what is counted) and the adaptive jitter buffer   *)
(* controller, fed by the status timer.                                    *)
(*                                                                         *)
(* The sender numbers its packets 0, 1, 2, ...; the wire carries the       *)
(* number plus a random offset modulo SequenceSpace (2^16 in the program). *)
(* The network drops, duplicates and reorders: a packet or a copy of it    *)
(* may arrive up to MaxLate packets behind the newest one.                 *)
(***************************************************************************)
EXTENDS Naturals, Integers, FiniteSets

CONSTANTS
    SequenceSpace, \* the number of RTP sequence numbers, 2^16
    Offsets,       \* the sequence offsets the sender may have drawn
    Window,        \* RECENT_SEQUENCE_WINDOW
    MaxPacket,     \* bound: the last packet the sender numbers
    MaxLate,       \* bound: how far behind the newest a packet may arrive
    MaxGap,        \* bound: how many packets in a row may be lost
    Cooldown,      \* INCREASE_COOLDOWN_SAMPLES
    StableSamples, \* STABLE_SAMPLES_BEFORE_DECREASE
    MinimumMs, InitialMs, MaximumMs,    \* the configured jitter range
    Jitters,       \* the jitter values the buffer may report
    Worlds         \* subsets of {"packets", "outage", "stray", "older", "control"}

VARIABLES
    offset,        \* sequence_offset of the session
    newest,        \* the newest packet that arrived, -1 before the first
    tracker,       \* RtpTracker
    accepted,      \* how often each packet was passed on
    first,         \* the packet the tracker started from
    controller,    \* AdaptiveJitterBufferController
    sinceRaise,    \* observations since the latency was last raised
    world

rtpVars == <<offset, newest, tracker, accepted, first, controller, sinceRaise>>
vars == <<rtpVars, world>>

May(b) == b \in world

None == -1

Monus(a, b) == IF a > b THEN a - b ELSE 0

Sequence(packet) == (packet + offset) % SequenceSpace

NewTracker ==
    [max |-> None, extended |-> 0, seen |-> {}, received |-> 0, lost |-> 0,
     outOfOrder |-> 0, duplicates |-> 0, rejected |-> 0]

NewController == [current |-> InitialMs, stable |-> 0, cooldown |-> 0]

Init ==
    /\ world \in Worlds
    /\ offset \in Offsets
    /\ newest = None
    /\ tracker = NewTracker
    /\ accepted = [packet \in 0..MaxPacket |-> 0]
    /\ first = None
    /\ controller = NewController
    /\ sinceRaise = Cooldown

(***************************************************************************)
(* RtpTracker::observe.                                                    *)
(***************************************************************************)
\* The wrapping difference of two sequence numbers, read as signed.
Delta(sequence, max) ==
    LET d == (sequence - max) % SequenceSpace
    IN  IF d >= SequenceSpace \div 2 THEN d - SequenceSpace ELSE d

Duplicate(t) == [t EXCEPT !.duplicates = @ + 1]

\* A number not seen before is counted, and the window of numbers moves on.
Received(t, extended) ==
    [t EXCEPT !.received = @ + 1,
              !.seen = {v \in @ \cup {extended} : v >= Monus(t.extended, Window)}]

\* A packet at or behind the newest: a copy, or one of those counted as lost.
Late(t, extended) ==
    IF extended \in t.seen THEN Duplicate(t)
    ELSE Received([t EXCEPT !.outOfOrder = @ + 1, !.lost = Monus(@, 1)], extended)

Observe(t, sequence) ==
    IF t.max = None
    THEN Received([t EXCEPT !.max = sequence, !.extended = sequence], sequence)
    ELSE LET delta == Delta(sequence, t.max)
             extended == t.extended + delta
         IN  IF delta > 0
             THEN Received([t EXCEPT !.max = sequence, !.extended = extended,
                                     !.lost = @ + delta - 1], extended)
             ELSE Late(t, Monus(t.extended, -delta))

\* attach_packet_probe: what the tracker accepts goes on to the jitter buffer.
Arrive(packet) ==
    /\ tracker' = Observe(tracker, Sequence(packet))
    /\ accepted' = [accepted EXCEPT ![packet] =
                        @ + (tracker'.received - tracker.received)]
    /\ newest' = IF packet > newest THEN packet ELSE newest
    /\ first' = IF first = None THEN packet ELSE first
    /\ UNCHANGED <<offset, controller, sinceRaise, world>>

\* A packet ahead of all others, after a gap of lost ones.
Fresh ==
    \E packet \in (newest + 1)..MaxPacket :
        /\ May("packets")
        /\ packet - newest <= (IF May("outage") THEN SequenceSpace ELSE MaxGap + 1)
        /\ Arrive(packet)

\* A packet, or a copy of one, that others overtook; in the world "older" one
\* copy may come from outside the window of seen numbers.
Delayed ==
    \E packet \in Monus(newest, MaxLate)..newest :
        /\ newest # None
        /\ May("packets")
        /\ packet + Window < newest =>
              May("older") /\ \A p \in 0..MaxPacket : accepted[p] < 2
        /\ accepted[packet] < 3
        /\ tracker.duplicates < 3
        /\ Arrive(packet)

\* inspect_rtp_packet: a packet that is too large, malformed, or from another
\* source is counted and dropped before the tracker sees it.
Stray ==
    /\ May("stray")
    /\ tracker.rejected < 1
    /\ tracker' = [tracker EXCEPT !.rejected = @ + 1]
    /\ UNCHANGED <<offset, newest, accepted, first, controller, sinceRaise, world>>

(***************************************************************************)
(* AdaptiveJitterBufferController::observe, on the status timer.           *)
(***************************************************************************)
Raised(c) ==
    [c EXCEPT !.current = IF @ + 4 > MaximumMs THEN MaximumMs ELSE @ + 4,
              !.cooldown = Cooldown]

\* Late packets, or jitter of at least half the buffer while receiving.
Unstable(c, late, receiving, jitter) == late \/ (receiving /\ jitter * 2 >= c.current)

Lowered(c) == [c EXCEPT !.current = IF @ - 1 < MinimumMs THEN MinimumMs ELSE @ - 1, !.stable = 0]

Adjust(c0, late, receiving, jitter) ==
    LET c == [c0 EXCEPT !.cooldown = Monus(@, 1)]
    IN  IF Unstable(c, late, receiving, jitter)
        THEN IF c.cooldown = 0 THEN Raised([c EXCEPT !.stable = 0]) ELSE [c EXCEPT !.stable = 0]
        ELSE IF ~receiving THEN [c EXCEPT !.stable = 0]
        ELSE IF c.stable + 1 >= StableSamples THEN Lowered(c)
        ELSE [c EXCEPT !.stable = @ + 1]

\* attach_status_writer: sample the statistics, adjust, apply the latency.
StatusTimer ==
    /\ May("control")
    /\ \E late, receiving \in BOOLEAN, jitter \in Jitters :
           controller' = Adjust(controller, late, receiving, jitter)
    /\ sinceRaise' = IF controller'.current > controller.current THEN 1
                     ELSE IF sinceRaise = Cooldown THEN Cooldown ELSE sinceRaise + 1
    /\ UNCHANGED <<offset, newest, tracker, accepted, first, world>>

Next ==
    \/ Fresh
    \/ Delayed
    \/ Stray
    \/ StatusTimer

Spec == Init /\ [][Next]_vars

(***************************************************************************)
(* Properties.                                                             *)
(***************************************************************************)
\* As long as no outage spans half the sequence space, a packet is passed to
\* the jitter buffer a second time only when it is older than the window of
\* seen numbers, across the wrap of the 16-bit sequence number and the
\* trimming of that window (RtpTracker::observe).
AcceptedOnce ==
    May("outage") \/
        \A packet \in 0..MaxPacket : accepted[packet] > 1 => packet + Window < newest

\* The loss the host reports (lost_packets, packet_loss_percent) is never more
\* than the packets missing between the first and the newest one, and is exact
\* when nothing older than the first packet arrived and no packet was accepted
\* twice.
LossIsReal ==
    LET missing == {packet \in first..newest : accepted[packet] = 0}
        older == {packet \in 0..(first - 1) : accepted[packet] > 0}
        once == \A packet \in 0..MaxPacket : accepted[packet] <= 1
    IN  (first # None /\ ~May("outage"))
            => /\ tracker.lost <= Cardinality(missing)
               /\ older = {} /\ once => tracker.lost = Cardinality(missing)

\* The latency stays in the configured range and is not raised again before
\* the cooldown ran out, so a burst of late packets cannot ratchet it up.
RaisesSpaced ==
    /\ controller'.current \in MinimumMs..MaximumMs
    /\ controller'.current > controller.current => sinceRaise >= Cooldown

=============================================================================
