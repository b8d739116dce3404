---------------------------- MODULE PackTransfer ----------------------------
(***************************************************************************)
(* How the state agent moves packs between the VM and the cloud storage.   *)
(*                                                                         *)
(* A restore downloads the packs it needs in batches of parallel flights,  *)
(* target after target (launch-critical, soon, complete), into a cache     *)
(* shared by all restores, links them into its workspace and extracts and  *)
(* verifies their chunks.  A backup uploads its packs in bulk.  Every      *)
(* rclone call waits for a slot of an adaptive limiter and for its turn at *)
(* a retry gate, is classified when it fails, and is tried again.          *)
(*                                                                         *)
(* The flights of a batch are futures of one task: they interleave only    *)
(* where they await, and an error or a cancellation drops all of them.     *)
(* Time is counted in ticks of the shortest back-off.                      *)
(***************************************************************************)
EXTENDS Naturals, FiniteSets, Sequences, SequencesExt, FiniteSetsExt

CONSTANTS Packs,        \* pack ids, numbers in their order
          Chunks, HomeOf, TierOf,  \* the pack and the restore priority of a chunk
          LastTarget,   \* RestoreTarget::Complete
          Slots,        \* parallel_download_processes
          max_attempts,
          Backoff,      \* attempt -> ticks
          Cooldown,     \* rate_limit_cooldown
          BulkSize,     \* how many packs a bulk upload takes at once
          Uploads,      \* the packs of a backup
          Bulk,         \* the one flight of an upload
          MaxRuns,      \* operations in a behaviour
          Worlds        \* which of "upload", "flaky", "limited", "down", "rot", "damaged",
                        \* "cancel", "crash", "stuck", "leftover", "conflict"

VARIABLES
    depot,    \* pack -> its object in the storage
    shelf,    \* pack -> its file in the restore cache
    pins,     \* packs hard-linked into the current workspace, and into one kept by recovery
    got,      \* verified chunks of the current workspace
    ledger,   \* pack -> its row of the operation's sync journal
    flights,  \* the transfers under way
    throttle, \* AdaptiveConcurrency
    cool,     \* ticks until SharedRetryGate's next_request
    haul,     \* the operation
    world

carried == <<depot, shelf, pins, got, ledger, flights, throttle, cool, haul>>
vars == <<carried, world>>

May(b) == b \in world
Flights == Packs \cup {Bulk}

NoFlight == [pc |-> "idle", attempt |-> 0, wait |-> 0]
NoFlights == [f \in Flights |-> NoFlight]
FullThrottle == [current |-> Slots, active |-> 0]
NoRows == [p \in Packs |-> "none"]
Idle == [pc |-> "idle", target |-> 0, todo |-> <<>>, batch |-> {}, runs |-> 0]

Init ==
    /\ world \in Worlds
    /\ depot = [p \in Packs |-> IF May("damaged") /\ p = Max(Packs) THEN "damaged"
                                ELSE IF ~May("upload") \/ (May("leftover") /\ p = Min(Packs))
                                THEN "whole"
                                ELSE IF May("conflict") /\ p = Max(Packs) THEN "other" ELSE "none"]
    /\ shelf = [p \in Packs |-> "none"]
    /\ pins = [own |-> {}, kept |-> {}]
    /\ got = {}
    /\ ledger = NoRows
    /\ flights = NoFlights
    /\ throttle = FullThrottle
    /\ cool = 0
    /\ haul = Idle

-----------------------------------------------------------------------------
(* Limiter, gate and calls *)

\* current within min = 1 and max.
adjust(n) == Min({Slots, Max({1, n})})

\* What record_success leaves: the latency decides.
Measured(t) == {[t EXCEPT !.current = adjust(n)] : n \in {t.current - 1, t.current, t.current + 1}}
record_error(t, class) ==
    [t EXCEPT !.current = adjust(IF class = "limited" THEN @ \div 2 ELSE @ - 1)]

\* notify_waiters
Woken(fs) == [f \in Flights |-> IF fs[f].pc = "asleep" THEN [fs[f] EXCEPT !.pc = "acquire"] ELSE fs[f]]
\* AdaptivePermit::drop
PermitDropped(fs) == Woken(fs)

acquire(f) ==
    /\ flights[f].pc = "acquire"
    /\ IF throttle.active < throttle.current
       THEN /\ throttle' = [throttle EXCEPT !.active = @ + 1]
            /\ flights' = [flights EXCEPT ![f].pc = "turn", ![f].attempt = 1]
       ELSE flights' = [flights EXCEPT ![f].pc = "asleep"] /\ UNCHANGED throttle
    /\ UNCHANGED <<depot, shelf, pins, got, ledger, cool, haul, world>>

\* The deadline is read once; min_request_interval is zero.
wait_for_turn(f) ==
    /\ flights[f].pc = "turn"
    /\ flights' = [flights EXCEPT ![f].pc = "call", ![f].wait = cool]
    /\ UNCHANGED <<depot, shelf, pins, got, ledger, throttle, cool, haul, world>>

Less(n) == IF n = 0 THEN 0 ELSE n - 1
Tick ==
    /\ cool > 0 \/ \E f \in Flights : flights[f].wait > 0
    /\ cool' = Less(cool)
    /\ flights' = [f \in Flights |-> [flights[f] EXCEPT !.wait = Less(@)]]
    /\ UNCHANGED <<depot, shelf, pins, got, ledger, throttle, haul, world>>

\* The classes classify_remote_error can give in this world.
Classes ==
    {c \in {"retryable", "limited", "permanent"} :
        \/ c = "retryable" /\ May("flaky")
        \/ c = "limited" /\ May("limited")
        \/ c = "permanent" /\ May("down")}
Again(f, class) == class # "permanent" /\ flights[f].attempt < max_attempts
backoff_ms(n, class) == IF class = "limited" THEN Max({Backoff[n], Cooldown}) ELSE Backoff[n]

\* wait_for_retry: everybody's next request waits at least as long as this flight.
Retry(f, class) ==
    LET delay == backoff_ms(flights[f].attempt, class)
    IN  /\ Again(f, class)
        /\ cool' = Max({cool, delay})
        /\ throttle' = record_error(throttle, class)
        /\ flights' = [Woken(flights) EXCEPT ![f].attempt = @ + 1, ![f].wait = delay,
                                             ![f].pc = "retry"]
CallFails(f) ==
    /\ flights[f].pc = "call" /\ flights[f].wait = 0
    /\ \E class \in Classes : Retry(f, class)
    /\ UNCHANGED <<depot, shelf, pins, got, ledger, haul, world>>
RetryDue(f) ==
    /\ flights[f].pc = "retry" /\ flights[f].wait = 0
    /\ flights' = [flights EXCEPT ![f].pc = "turn"]
    /\ UNCHANGED <<depot, shelf, pins, got, ledger, throttle, cool, haul, world>>

Called(f) == flights[f].pc = "call" /\ flights[f].wait = 0

\* The permit goes and, of the flights that wait for one, all look again.
Landed(f) == [PermitDropped(flights) EXCEPT ![f] = [NoFlight EXCEPT !.pc = "landed"]]
Released(t) == [t EXCEPT !.active = @ - 1]

-----------------------------------------------------------------------------
(* A restore *)

Needed(t) == {c \in Chunks : TierOf[c] <= t}
MissingOf(p, t) == {c \in Needed(t) : HomeOf[c] = p} \ got
\* plan_missing_pack_jobs: by priority, then by pack.
Urgency(p, t) == Min({TierOf[c] : c \in MissingOf(p, t)})
Jobs(t) ==
    LET packs == {p \in Packs : MissingOf(p, t) # {}}
    IN  SortSeq(SetToSeq(packs),
                LAMBDA p, q : \/ Urgency(p, t) < Urgency(q, t)
                              \/ Urgency(p, t) = Urgency(q, t) /\ p < q)

\* Dropped futures: their permits and timers go with the provider.
Grounded == flights' = NoFlights /\ throttle' = FullThrottle /\ cool' = 0

\* prune_local_pack_cache with a budget of nothing: linked packs stay.
Pruned(s, linked) == [p \in Packs |-> IF p \in linked THEN s[p] ELSE "none"]

\* A failed or a cancelled restore: the transaction's drop rolls back, releases the
\* links, prunes and removes the workspace.
Abort(end) ==
    /\ haul' = [haul EXCEPT !.pc = end, !.todo = <<>>, !.batch = {}]
    /\ pins' = [pins EXCEPT !.own = {}]
    /\ shelf' = Pruned(shelf, pins.kept)
    /\ got' = {}
    /\ Grounded
    /\ UNCHANGED depot

StartRestore ==
    /\ ~May("upload") /\ haul.pc \in {"idle", "completed", "failed", "cancelled"}
    /\ haul.runs < MaxRuns
    /\ haul' = [Idle EXCEPT !.pc = "plan", !.target = 1, !.runs = haul.runs + 1]
    /\ ledger' = NoRows
    /\ UNCHANGED <<depot, shelf, pins, got, flights, throttle, cool, world>>

\* Rows for all packs of the complete target that have none.
PlanTarget ==
    /\ haul.pc = "plan"
    /\ haul' = [haul EXCEPT !.pc = "batch", !.todo = Jobs(haul.target)]
    /\ ledger' = [p \in Packs |-> IF ledger[p] = "none" /\ MissingOf(p, LastTarget) # {}
                                  THEN "pending" ELSE ledger[p]]
    /\ UNCHANGED <<depot, shelf, pins, got, flights, throttle, cool, world>>

BatchOver == \A p \in haul.batch : flights[p].pc = "landed"

\* run_bounded: process_pack of the next few jobs up to their first await.  A cached pack
\* is taken as completed, linked and extracted; one that does not extract is removed.
StartBatch ==
    /\ haul.pc = "batch" /\ BatchOver /\ haul.todo # <<>>
    /\ LET taken == Range(SubSeq(haul.todo, 1, Min({Slots, Len(haul.todo)})))
           usable == {p \in taken : shelf[p] = "good"}
           spoilt == {p \in taken : shelf[p] = "bad"}
       IN  /\ haul' = [haul EXCEPT !.batch = taken,
                                   !.todo = SubSeq(@, Cardinality(taken) + 1, Len(@))]
           /\ flights' = [f \in Flights |->
                            IF f \in usable THEN [NoFlight EXCEPT !.pc = "landed"]
                            ELSE IF f \in taken
                            THEN [NoFlight EXCEPT !.pc = "acquire"]
                            ELSE NoFlight]
           /\ ledger' = [p \in Packs |-> IF p \in usable THEN "completed"
                                         ELSE IF p \in taken THEN "in progress" ELSE ledger[p]]
           /\ got' = got \cup UNION {MissingOf(p, haul.target) : p \in usable}
           /\ pins' = [pins EXCEPT !.own = (@ \cup usable) \ spoilt]
           /\ shelf' = [p \in Packs |-> IF p \in spoilt THEN "none" ELSE shelf[p]]
    /\ UNCHANGED <<depot, throttle, cool, world>>

\* The file is moved into the cache, journaled, linked, its chunks extracted; a pack whose
\* object is damaged fails the restore and leaves the file for the prune.
Downloaded(p) ==
    /\ p \in haul.batch /\ haul.pc = "batch" /\ Called(p) /\ depot[p] = "whole"
    /\ shelf' = [shelf EXCEPT ![p] = "good"]
    /\ ledger' = [ledger EXCEPT ![p] = "completed"]
    /\ pins' = [pins EXCEPT !.own = @ \cup {p}]
    /\ got' = got \cup MissingOf(p, haul.target)
    /\ \E t \in Measured(throttle) : throttle' = Released(t)
    /\ flights' = Landed(p)
    /\ UNCHANGED <<depot, cool, haul, world>>

DownloadFails(p) ==
    /\ p \in haul.batch /\ haul.pc = "batch" /\ Called(p)
    /\ \/ depot[p] = "damaged" /\ ledger' = [ledger EXCEPT ![p] = "completed"]
       \/ /\ \E class \in Classes : ~Again(p, class)
          /\ ledger' = [ledger EXCEPT ![p] = "failed"]
    /\ Abort("failed")
    /\ UNCHANGED world

\* What comes after a target: publishing it, the next target, or the end of downloading.
TargetDone ==
    /\ haul.pc = "batch" /\ BatchOver /\ haul.todo = <<>>
    /\ haul' = IF haul.target < LastTarget
               THEN [haul EXCEPT !.pc = "plan", !.target = @ + 1, !.batch = {}]
               ELSE [haul EXCEPT !.pc = "release", !.batch = {}]
    /\ flights' = NoFlights
    /\ UNCHANGED <<depot, shelf, pins, got, ledger, throttle, cool, world>>

\* release_staged_pack_links, then prune_restore_pack_cache: packs that stay are an error.
ReleaseAndPrune ==
    /\ haul.pc = "release"
    /\ IF {p \in Packs : shelf[p] # "none"} \cap pins.kept # {}
       THEN Abort("failed")
       ELSE /\ haul' = [haul EXCEPT !.pc = "apply"]
            /\ pins' = [pins EXCEPT !.own = {}]
            /\ shelf' = Pruned(shelf, pins.kept)
            /\ UNCHANGED <<depot, got, flights, throttle, cool>>
    /\ UNCHANGED <<ledger, world>>

\* The rest is published and the transaction commits: the workspace goes.
CommitRestore ==
    /\ haul.pc = "apply"
    /\ haul' = [haul EXCEPT !.pc = "completed"]
    /\ got' = {}
    /\ Grounded
    /\ UNCHANGED <<depot, shelf, pins, ledger, world>>

-----------------------------------------------------------------------------
(* An upload *)

StartUpload ==
    /\ May("upload") /\ haul.pc \in {"idle", "completed", "failed", "cancelled"}
    /\ haul.runs < MaxRuns
    /\ haul' = [Idle EXCEPT !.pc = "compare", !.runs = haul.runs + 1]
    /\ ledger' = [p \in Packs |-> IF p \in Uploads THEN "in progress" ELSE "none"]
    /\ flights' = [NoFlights EXCEPT ![Bulk].pc = "turn", ![Bulk].attempt = 1]
    /\ UNCHANGED <<depot, shelf, pins, got, throttle, cool, world>>

\* The error path of commit_bundle: rows not completed become failed.
UploadOver(rows) ==
    /\ haul' = [haul EXCEPT !.pc = "failed", !.todo = <<>>, !.batch = {}]
    /\ ledger' = [p \in Packs |-> IF p \in Uploads /\ rows[p] # "completed" THEN "failed" ELSE rows[p]]
    /\ Grounded

\* Mutant: by key only.
ComparedByKey(p) == IF depot[p] = "none" THEN "missing" ELSE "known"

\* compare_known_map: by key and size.
Compared(p) == IF depot[p] = "none" THEN "missing" ELSE IF depot[p] = "whole" THEN "known" ELSE "conflict"

\* upload_immutable_bulk_observed after its listing: what is there is completed.
CompareKnown ==
    /\ haul.pc = "compare" /\ Called(Bulk)
    /\ LET known == {p \in Uploads : Compared(p) = "known"}
           missing == {p \in Uploads : Compared(p) = "missing"}
       IN  IF \E p \in Uploads : Compared(p) = "conflict"
           THEN UploadOver(ledger)
           ELSE /\ haul' = [haul EXCEPT !.pc = "bulk", !.todo = SetToSortSeq(missing, <)]
                /\ ledger' = [p \in Packs |-> IF p \in known THEN "completed" ELSE ledger[p]]
                /\ flights' = NoFlights
                /\ UNCHANGED <<throttle, cool>>
    /\ UNCHANGED <<depot, shelf, pins, got, world>>

\* The next packs are staged and copied with one rclone call.
NextBulk ==
    /\ haul.pc = "bulk" /\ haul.batch = {}
    /\ IF haul.todo = <<>>
       THEN haul' = [haul EXCEPT !.pc = "completed"] /\ Grounded
       ELSE /\ LET n == Min({BulkSize, Len(haul.todo)})
               IN  haul' = [haul EXCEPT !.batch = Range(SubSeq(haul.todo, 1, n)),
                                        !.todo = SubSeq(@, n + 1, Len(@))]
            /\ flights' = [NoFlights EXCEPT ![Bulk].pc = "acquire"]
            /\ UNCHANGED <<throttle, cool>>
    /\ UNCHANGED <<depot, shelf, pins, got, ledger, world>>

Stored(ps) == [p \in Packs |-> IF p \in ps THEN "whole" ELSE depot[p]]

BulkCopied ==
    /\ haul.pc = "bulk" /\ haul.batch # {} /\ Called(Bulk)
    /\ depot' = Stored(haul.batch)
    /\ ledger' = [p \in Packs |-> IF p \in haul.batch THEN "completed" ELSE ledger[p]]
    /\ haul' = [haul EXCEPT !.batch = {}]
    /\ \E t \in Measured(throttle) : throttle' = Released(t)
    /\ flights' = [PermitDropped(flights) EXCEPT ![Bulk] = NoFlight]
    /\ UNCHANGED <<shelf, pins, got, cool, world>>

\* A copy that fails in the middle has stored some of its packs.
BulkPartly ==
    /\ haul.pc = "bulk" /\ haul.batch # {} /\ Called(Bulk)
    /\ \E some \in (SUBSET haul.batch) \ {{}} : depot' = Stored(some)
    /\ \E class \in Classes : Retry(Bulk, class)
    /\ UNCHANGED <<shelf, pins, got, ledger, haul, world>>

UploadFails ==
    /\ haul.pc \in {"compare", "bulk"} /\ Called(Bulk)
    /\ \E class \in Classes : ~Again(Bulk, class)
    /\ UploadOver(ledger)
    /\ UNCHANGED <<depot, shelf, pins, got, world>>

-----------------------------------------------------------------------------
(* What happens to them *)

Running == haul.pc \in {"plan", "batch", "release", "apply", "compare", "bulk"}

\* The futures are dropped; rclone is killed, an upload may have stored some packs.
Cancel ==
    /\ May("cancel") /\ Running /\ \E f \in Flights : flights[f].pc \notin {"idle", "landed"}
    /\ IF May("upload")
       THEN /\ haul' = [haul EXCEPT !.pc = "cancelled", !.todo = <<>>, !.batch = {}]
            /\ \E some \in SUBSET haul.batch : depot' = Stored(some)
            /\ Grounded
            /\ UNCHANGED <<pins, shelf, got>>
       ELSE Abort("cancelled")
    /\ UNCHANGED <<ledger, world>>

\* The agent dies in a restore and starts again: recover_interrupted_restores removes the
\* workspace, or keeps it when its roll-back fails, and prunes what is not linked.
Crash ==
    /\ May("crash") /\ ~May("upload") /\ Running
    /\ LET kept == IF May("stuck") /\ pins.kept = {} THEN pins.own ELSE pins.kept
       IN  pins' = [own |-> {}, kept |-> kept] /\ shelf' = Pruned(shelf, kept)
    /\ haul' = [Idle EXCEPT !.runs = haul.runs]
    /\ got' = {}
    /\ Grounded
    /\ UNCHANGED <<depot, ledger, world>>

\* A cached file is damaged on the disk.
Rot ==
    /\ May("rot") /\ \E p \in Packs : shelf[p] = "good" /\ shelf' = [shelf EXCEPT ![p] = "bad"]
    /\ UNCHANGED <<depot, pins, got, ledger, flights, throttle, cool, haul, world>>

Step ==
    \/ \E f \in Flights : acquire(f) \/ wait_for_turn(f) \/ CallFails(f) \/ RetryDue(f)
    \/ Tick
    \/ PlanTarget \/ StartBatch \/ TargetDone \/ ReleaseAndPrune \/ CommitRestore
    \/ \E p \in Packs : Downloaded(p) \/ DownloadFails(p)
    \/ CompareKnown \/ NextBulk \/ BulkCopied \/ BulkPartly \/ UploadFails

Next == Step \/ StartRestore \/ StartUpload \/ Cancel \/ Crash \/ Rot \/ UNCHANGED vars

Spec == Init /\ [][Next]_vars

\* The runtime polls what is ready, time passes, rclone returns.
FairSpec == Spec /\ WF_carried(Step)
-----------------------------------------------------------------------------
(* What a target's download reports as done is there: once a restore has   *)
(* gone past a target every chunk of it is verified in the workspace,      *)
(* whether its pack was downloaded, found in the cache by a later target,  *)
(* or found damaged there and downloaded again.  And a pack whose upload   *)
(* is journaled as completed is in the storage as it was built.            *)
DoneMeansThere ==
    /\ ~May("upload") /\ (haul.pc = "apply" \/ haul.pc = "release" \/ haul.pc = "plan") =>
          Needed(IF haul.pc = "plan" THEN haul.target - 1 ELSE LastTarget) \subseteq got
    /\ May("upload") => \A p \in Uploads : ledger[p] = "completed" => depot[p] = "whole"
    /\ May("upload") /\ haul.pc = "completed" => \A p \in Uploads : ledger[p] = "completed"

=============================================================================
