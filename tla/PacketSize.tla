----------------------------- MODULE PacketSize -----------------------------
(***************************************************************************)
(* The adaptive packet size of moonlight/adaptive_packet_size.rs and the   *)
(* part of the runtime actor (moonlight/runtime/mod.rs) that drives it:    *)
(* a start detects the path to the host, takes the size the cache has      *)
(* learned for that path (capped by the MTU, sometimes one step higher as  *)
(* a probe), and the connection's half-second windows confirm the size or  *)
(* lower it.  A lowered size is saved at once and used by the next start.  *)
(*                                                                         *)
(* A window is one of six kinds instead of its counters; confidence counts *)
(* in fifths; the calendar counts in probe intervals (weeks); successful   *)
(* sessions are counted up to ProbeSessions, the only value compared.      *)
(***************************************************************************)
EXTENDS Naturals, FiniteSets

CONSTANTS
    Environments,     \* what detect_path may find, see DetectPath
    Preferences,      \* the stream preferences a start may come with
    CooldownWindows,  \* VALIDATION_COOLDOWN in evaluation windows
    StableWindows,    \* STABLE_SESSION_DURATION in evaluation windows
    ProbeSessions,    \* successful sessions before an upshift probe
    CacheWeeks,       \* CACHE_TTL
    MaxEntries,       \* CACHE_MAX_ENTRIES
    MaxWeek,          \* bound: the last week
    HashOf(_),        \* the hash of a fingerprint, as far as its order goes
    Worlds            \* the kinds of address that occur, and "disk"

VARIABLES
    stored,       \* network-path-cache.json: fingerprint -> entry
    sizer,        \* the AdaptivePacketSizeController, NoSizer when none
    wanted,       \* active_request: the preferences with the sizes applied
    link,         \* [pc, attempted, inflight, deferred] of the runtime actor
    inUse,        \* the packet size the native connection was started with
    week,
    world

sizeVars == <<stored, sizer, wanted, link, inUse, week>>
vars == <<sizeVars, world>>

May(b) == b \in world

None == 0
NoSizer == [enabled |-> FALSE, live |-> FALSE]

Ladder == {1392, 1280, 1152, 1088, 1024, 960}
MinSize == 960

Highest(sizes) == CHOOSE s \in sizes : \A t \in sizes : t <= s

(***************************************************************************)
(* The path to the host.                                                   *)
(***************************************************************************)
\* The newest status file of a running tunnel of this application that
\* covers the destination and whose configuration is still the one on disk.
DetectManagedTunnel(files) ==
    LET usable == {f \in files : /\ f.active /\ f.clean /\ f.fresh
                                 /\ f.covers /\ f.config = f.onDisk}
    IN  {f \in usable : \A g \in usable : g.at <= f.at}

ClassifyDirect(address) ==
    CASE address \in {"loopback", "link-local"} -> "local"
      [] address = "private" -> "private"
      [] address = "public" -> "remote"
      [] OTHER -> "unknown"

NoTunnel == "-"

DetectPath(env) ==
    LET tunnels == DetectManagedTunnel(env.files)
        direct == [kind |-> ClassifyDirect(env.address), mtu |-> env.mtu,
                   config |-> NoTunnel, route |-> env.route,
                   address |-> env.address]
    IN  IF env.address = "hostname"
        THEN [direct EXCEPT !.kind = "unknown", !.mtu = None]
        ELSE IF tunnels = {} THEN direct
        ELSE LET t == CHOOSE t \in tunnels : TRUE
             IN  [direct EXCEPT !.kind = "tunnel", !.mtu = t.mtu,
                                !.config = t.config]

\* What identifies a path in the cache.  The MTU is only in it through the
\* configuration of a tunnel.
PathFingerprint(path) == <<path.address, path.kind, path.config, path.route>>

ResolveRemoteMode(configured, kind) ==
    IF configured # "auto" THEN configured
    ELSE IF kind \in {"tunnel", "private", "remote"} THEN "remote"
    ELSE IF kind = "local" THEN "local"
    ELSE "auto"

CandidateKind(mode, kind) ==
    IF mode = "remote" /\ kind # "tunnel" THEN "remote"
    ELSE IF mode = "local" THEN "local"
    ELSE kind

ByMtu(mtu) ==
    IF mtu = None THEN 1024
    ELSE IF mtu >= 1400 THEN 1280
    ELSE IF mtu >= 1300 THEN 1152
    ELSE IF mtu >= 1280 THEN 1024
    ELSE 960

InitialCandidate(kind, mtu) ==
    CASE kind = "local" -> IF mtu >= 1500 THEN 1392 ELSE ByMtu(mtu)
      [] kind = "tunnel" -> ByMtu(mtu)
      [] kind \in {"private", "remote"} ->
            IF mtu # None /\ mtu < 1280 THEN 960 ELSE 1024
      [] OTHER -> 1024

(***************************************************************************)
(* The ladder.                                                             *)
(***************************************************************************)
NormalizeCachedSize(size) ==
    LET fits == {s \in Ladder : s <= size}
    IN  IF fits = {} THEN MinSize ELSE Highest(fits)

CapCandidate(size, cap) ==
    LET fits == {s \in Ladder : s <= size /\ s <= cap}
    IN  IF fits = {} THEN MinSize ELSE Highest(fits)

Lower(size) == {s \in Ladder : s < size}
Higher(size) == {s \in Ladder : s > size}

NextLower(size) == Highest(Lower(size))
NextHigher(size) == CHOOSE s \in Higher(size) : \A t \in Higher(size) : s <= t

(***************************************************************************)
(* The cache document.                                                     *)
(***************************************************************************)
Fresh(entry) == week <= entry.updated + CacheWeeks

Normalize(cache) ==
    LET fresh == {p \in DOMAIN cache : Fresh(cache[p])}
        Before(q, p) == \/ cache[q].updated > cache[p].updated
                        \/ /\ cache[q].updated = cache[p].updated
                           /\ HashOf(q) < HashOf(p)
        kept == {p \in fresh : Cardinality({q \in fresh : Before(q, p)}) < MaxEntries}
    IN  [p \in kept |->
            [cache[p] EXCEPT !.selected = NormalizeCachedSize(@),
                             !.good = IF @ = None THEN None ELSE NormalizeCachedSize(@),
                             !.bad = IF @ = None THEN None ELSE NormalizeCachedSize(@)]]

Empty == [p \in {} |-> None]

LoadCache == {Normalize(stored)} \cup (IF May("disk") THEN {Empty} ELSE {})

\* A failed write is only logged: the copy in memory has moved on.
PersistCache(cache) ==
    \/ stored' = Normalize(cache)
    \/ May("disk") /\ stored' = stored

\* The entry of this path, as record_stable_if_ready and commit_downshift
\* write it; the time of the last probe stays.
Entry(s) ==
    [selected |-> s.selected, good |-> s.good, bad |-> s.bad,
     confidence |-> s.confidence, sessions |-> s.sessions, updated |-> week,
     probed |-> IF s.print \in DOMAIN s.cache THEN s.cache[s.print].probed
                                              ELSE [at |-> 0, done |-> FALSE]]

WithEntry(s) ==
    [s EXCEPT !.cache = [p \in DOMAIN @ \cup {s.print} |->
                            IF p = s.print THEN Entry(s) ELSE @[p]]]

\* The copy in memory is normalised by the write too.
Saved(s) == [s EXCEPT !.cache = Normalize(@)]

(***************************************************************************)
(* Preparing a session.                                                    *)
(***************************************************************************)
ProbeDue(entry, size, cap) ==
    /\ entry.confidence >= 4
    /\ entry.sessions >= ProbeSessions
    /\ week > IF entry.probed.done THEN entry.probed.at ELSE entry.updated
    /\ Higher(size) # {}
    /\ NextHigher(size) <= cap

PrepareWithPath(path, configured, cache) ==
    LET print == PathFingerprint(path)
        mode == ResolveRemoteMode(configured, path.kind)
        cap == InitialCandidate(CandidateKind(mode, path.kind), path.mtu)
        base == [enabled |-> TRUE, live |-> TRUE, mode |-> mode,
                 kind |-> path.kind, mtu |-> path.mtu, print |-> print,
                 selected |-> cap, good |-> None, bad |-> None,
                 confidence |-> 0, sessions |-> 0, cache |-> cache,
                 probing |-> FALSE, baseline |-> FALSE, cooldown |-> 0,
                 stable |-> 0, recorded |-> FALSE, streak |-> 0,
                 badWindows |-> 0, decided |-> FALSE]
    IN  IF print \notin DOMAIN cache THEN base
        ELSE LET entry == cache[print]
                 size == CapCandidate(entry.selected, cap)
                 known == [base EXCEPT
                             !.selected = size,
                             !.good = IF entry.good = None THEN None
                                      ELSE CapCandidate(entry.good, cap),
                             !.bad = entry.bad,
                             !.confidence = entry.confidence,
                             !.sessions = entry.sessions]
             IN  IF ProbeDue(entry, size, cap)
                 THEN [known EXCEPT
                         !.selected = NextHigher(size), !.probing = TRUE,
                         !.cache[print].probed = [at |-> week, done |-> TRUE]]
                 ELSE known

\* resolve_remote_stream_config: the mode in force and the size it uses.
ConfiguredMode(request) ==
    IF request.remoteMode = "auto" THEN request.streamingMode
                                   ELSE request.remoteMode

ConfiguredSize(request) ==
    IF ConfiguredMode(request) = "remote" THEN request.remoteSize
                                          ELSE request.networkSize

ApplyPacketSize(request, mode, size) ==
    IF mode = "remote"
    THEN [request EXCEPT !.remoteMode = mode, !.remoteSize = size]
    ELSE [request EXCEPT !.remoteMode = mode, !.networkSize = size]

Resting == [pc |-> "idle", attempted |-> FALSE, inflight |-> FALSE,
            deferred |-> FALSE]

NoRequest == [enabled |-> FALSE]

\* The Start command with the adaptive size switched on.
StartAdaptive(request, env) ==
    /\ link.pc = "idle"
    /\ request.enabled
    /\ May(env.address)
    /\ \E cache \in LoadCache :
        LET s == PrepareWithPath(DetectPath(env), ConfiguredMode(request), cache)
            r == ApplyPacketSize(request, s.mode, s.selected)
        IN  /\ IF s.probing THEN PersistCache(s.cache) ELSE UNCHANGED stored
            /\ sizer' = IF s.probing THEN Saved(s) ELSE s
            /\ wanted' = r
            /\ inUse' = ConfiguredSize(r)
    /\ link' = [Resting EXCEPT !.pc = "connecting"]
    /\ UNCHANGED week

\* The Start command with the adaptive size switched off: a controller that
\* does nothing, and the size of the preferences.
StartFixed(request) ==
    /\ link.pc = "idle"
    /\ ~request.enabled
    /\ sizer' = NoSizer
    /\ wanted' = request
    /\ inUse' = ConfiguredSize(request)
    /\ link' = [Resting EXCEPT !.pc = "connecting"]
    /\ UNCHANGED <<stored, week>>

(***************************************************************************)
(* The connection.                                                         *)
(***************************************************************************)
OnConnected(s) ==
    IF ~s.enabled THEN s
    ELSE [s EXCEPT !.baseline = FALSE, !.cooldown = CooldownWindows,
                   !.stable = 0, !.recorded = FALSE, !.streak = 0,
                   !.badWindows = 0, !.decided = FALSE]

\* The matching CONNECTED event.  Only a connection that is not the one-shot
\* reconnect gives the allowance back.
Connected ==
    /\ link.pc = "connecting"
    /\ sizer' = OnConnected(sizer)
    /\ link' = [link EXCEPT !.pc = "streaming", !.inflight = FALSE,
                            !.attempted = link.inflight /\ @]
    /\ UNCHANGED <<stored, wanted, inUse, week>>

\* should_auto_reconnect, and the reconnect: the retained request again.
Reconnect ==
    /\ link.pc = "streaming"
    /\ ~link.attempted
    /\ wanted.reconnects
    /\ link' = [link EXCEPT !.pc = "connecting", !.attempted = TRUE,
                            !.inflight = TRUE]
    /\ inUse' = ConfiguredSize(wanted)
    /\ UNCHANGED <<stored, sizer, wanted, week>>

\* Every other end: a stop, a stall, a failed stage, a termination without
\* an allowance, a start that is refused.
End ==
    /\ link.pc # "idle"
    /\ link' = Resting
    /\ sizer' = NoSizer
    /\ wanted' = NoRequest
    /\ inUse' = None
    /\ UNCHANGED <<stored, week>>

(***************************************************************************)
(* The evaluation of a window.                                             *)
(***************************************************************************)
\* "clean" and "silent" carry no evidence, "silent" no round-trip time;
\* "minor" has a few malformed packets; "lossy" has failed or invalid FEC;
\* "recovering" a high share of repaired packets; "congested" the evidence
\* of a lossy window with a grown round-trip time.
Windows == {"clean", "silent", "minor", "lossy", "recovering", "congested"}

HasEvidence(kind) == kind \in {"lossy", "recovering", "congested"}

\* recovery_window_streak and the score: 0, 1 or 3 and more.
Streak(s, kind) == IF kind = "recovering" THEN (IF s.streak < 2 THEN s.streak + 1 ELSE 2)
                   ELSE 0

ScoreWindow(s, kind) ==
    CASE kind = "lossy" -> 3
      [] kind = "recovering" -> IF Streak(s, kind) >= 2 THEN 3 ELSE 0
      [] kind = "minor" -> 1
      [] OTHER -> 0

\* Time passes to the end of the window.
Later(s) == [s EXCEPT !.cooldown = IF @ > 0 THEN @ - 1 ELSE 0,
                      !.stable = IF @ < StableWindows THEN @ + 1 ELSE @]

StableNow(s) == ~s.recorded /\ s.stable >= StableWindows

RecordStable(s) ==
    IF ~StableNow(s) THEN s
    ELSE Saved(WithEntry([s EXCEPT
            !.good = s.selected, !.recorded = TRUE,
            !.sessions = IF @ < ProbeSessions THEN @ + 1 ELSE @,
            !.confidence = IF @ < 5 THEN @ + 1 ELSE 5]))

\* A window before the first healthy round-trip time.
FindBaseline(s, kind) ==
    LET t == [s EXCEPT !.badWindows = 0, !.streak = 0]
    IN  IF ~HasEvidence(kind) /\ kind # "silent"
        THEN RecordStable([t EXCEPT !.baseline = TRUE])
        ELSE [t EXCEPT !.stable = 0]

\* A window that scores three or more.
CountBad(s) ==
    LET t == [s EXCEPT !.stable = 0]
    IN  IF s.cooldown > 0 \/ s.decided THEN [t EXCEPT !.badWindows = 0]
        ELSE [t EXCEPT !.badWindows = IF @ < 3 THEN @ + 1 ELSE 3]

EvaluateWindow(now, kind) ==
    LET s == Later(now)
    IN  IF ~s.baseline THEN FindBaseline(s, kind)
        ELSE IF kind = "congested"
        THEN [s EXCEPT !.badWindows = 0, !.streak = 0, !.stable = 0]
        ELSE LET t == [s EXCEPT !.streak = Streak(s, kind)]
                 score == ScoreWindow(s, kind)
             IN  IF score = 0 THEN RecordStable([t EXCEPT !.badWindows = 0])
                 ELSE IF score < 3 THEN [t EXCEPT !.badWindows = 0, !.stable = 0]
                 ELSE CountBad(t)

Decides(s) == s.badWindows = 3 /\ ~s.decided /\ Lower(s.selected) # {}

\* commit_downshift.
CommitDownshift(s) ==
    Saved(WithEntry([s EXCEPT
        !.bad = s.selected, !.selected = NextLower(s.selected),
        !.confidence = IF @ > 0 THEN @ - 1 ELSE 0,
        !.badWindows = 0, !.streak = 0, !.cooldown = CooldownWindows,
        !.stable = 0]))

\* Seeded fault: the policy is evaluated after a deferred downshift too.
ShouldEvaluateAlways == link.pc = "streaming" /\ ~link.inflight

ShouldEvaluate == link.pc = "streaming" /\ ~link.inflight /\ ~link.deferred

\* The tick that ends a window: observe and, after three bad windows,
\* commit_downshift.  The running connection keeps its size.
Observe(kind) ==
    /\ ShouldEvaluate
    /\ sizer.enabled
    /\ LET s == EvaluateWindow(sizer, kind)
           low == CommitDownshift(s)
       IN  IF Decides(s)
           THEN /\ sizer' = low
                /\ PersistCache(low.cache)
                /\ link' = [link EXCEPT !.deferred = TRUE]
           ELSE /\ sizer' = s
                /\ IF s.recorded /\ ~sizer.recorded THEN PersistCache(s.cache)
                   ELSE UNCHANGED stored
                /\ UNCHANGED link
    /\ UNCHANGED <<wanted, inUse, week>>

WeekPasses ==
    /\ link.pc = "idle"
    /\ week < MaxWeek
    /\ week' = week + 1
    /\ UNCHANGED <<stored, sizer, wanted, link, inUse>>

Init ==
    /\ world \in Worlds
    /\ stored = Empty
    /\ sizer = NoSizer
    /\ wanted = NoRequest
    /\ link = Resting
    /\ inUse = None
    /\ week = 0

SizeNext ==
    \/ \E request \in Preferences, env \in Environments : StartAdaptive(request, env)
    \/ \E request \in Preferences : StartFixed(request)
    \/ Connected
    \/ Reconnect
    \/ End
    \/ \E kind \in Windows : Observe(kind)
    \/ WeekPasses

Next == SizeNext /\ UNCHANGED world

Spec == Init /\ [][Next]_vars

(***************************************************************************)
(* Properties.                                                             *)
(***************************************************************************)
\* The cap the path's MTU puts on the size of a session.
Cap(s) == InitialCandidate(CandidateKind(s.mode, s.kind), s.mtu)

\* An adaptive session never streams with more than its path carries: the
\* cached sizes, the upshift probes and the sizes of the preferences of an
\* earlier path (prepare_with_path, apply_packet_size, the retained request
\* of a reconnect) never exceed the cap of the path detected at its start.
SizeWithinCap == link.pc # "idle" /\ sizer.enabled => inUse <= Cap(sizer)

\* A step property: a size is recorded as good for a path only when the connection that was
\* stable for the whole period really used it (record_stable_if_ready): a
\* downshift that waits for the next start is never confirmed by a
\* connection that still runs with the old size.
GoodMeansUsed ==
    sizer.live /\ sizer'.live /\ sizer.enabled /\ sizer'.enabled
    /\ ~sizer.recorded /\ sizer'.recorded => sizer'.good = inUse
=============================================================================
