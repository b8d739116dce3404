-------------------------- MODULE FeedbackJournal --------------------------
(***************************************************************************)
(* What a participant contributes: one journal per rental, kept in memory  *)
(* and in an atomically replaced file (services/feedback/journal.rs), fed  *)
(* by hooks of the rental and of the stream and delivered by revision      *)
(* (services/feedback/mod.rs).  Hooks read the program's state before they *)
(* take the runtime lock; deliveries work on a copy of the journal.        *)
(***************************************************************************)
EXTENDS Naturals, FiniteSets

CONSTANTS Sessions,       \* rentals, in delivery order
          MaxSessions,    \* MAX_SESSIONS
          MaxRevision,    \* bound: revisions of a journal and of its review
          MaxEpoch,       \* bound: consent epochs
          MaxMishaps,     \* bound: crashes, failed writes, lost answers
          Worlds          \* which of AllBehaviours may happen

AllBehaviours ==
    {"review",     \* the user rates the rental
     "frames",     \* the rental is streamed from and measured
     "setup",      \* the rental becomes ready and is paired
     "missing",    \* the provider does not list the rental, for a while or for good
     "consent",    \* the user changes the scope, withdraws and rejoins
     "crash",      \* the desktop dies
     "disk",       \* the journal file cannot be written
     "lost",       \* a request or its answer is lost
     "conflict",   \* the saved state names another machine for the rental
     "refused",    \* the server refuses a journal or a review for good
     "suspended",  \* the computer sleeps
     "old",        \* journals get older than 30 days
     "again"}      \* there is a second rental

VARIABLES
    consent,    \* [on, epoch, pending]: the persisted choice
    running,    \* [on, ok]: not stopped, and the last write succeeded
    journals,   \* session -> journal in memory
    file,       \* session -> journal on disk
    meter,      \* session -> jitter accumulator
    hook,       \* begin_rental or confirm_rental between its read and its lock
    upload,     \* delivery in flight
    received,   \* session -> newest revision and body the server has accepted
    reviews,    \* session -> rating the server has accepted
    wanted,     \* session -> the user's last successful rating
    trouble,    \* faults so far
    world

journalVars == <<consent, running, journals, file, meter, hook, upload, received, reviews, wanted, trouble>>
vars == <<journalVars, world>>

May(b) == b \in world
Rentals == IF May("again") THEN Sessions ELSE {CHOOSE s \in Sessions : TRUE}

NoReview == [rev |-> 0, text |-> "none", ack |-> 0, rejected |-> FALSE]
NoJournal == [inst |-> FALSE, epoch |-> 0, rev |-> 0, ack |-> 0, marks |-> {}, complete |-> FALSE, jitter |-> 0,
              machine |-> FALSE, review |-> NoReview, rejected |-> FALSE, gone |-> FALSE]
NoMeter == [segment |-> "none", count |-> 0]
NoHook == [pc |-> "idle", s |-> CHOOSE s \in Sessions : TRUE, epoch |-> 0]
NoUpload == [pc |-> "idle", jobs |-> <<>>, s |-> CHOOSE s \in Sessions : TRUE, j |-> NoJournal, cancelled |-> FALSE]
Empty == [s \in Sessions |-> NoJournal]

\* The body of a delivery; the review is delivered on its own.
Snapshot(j) == [epoch |-> j.epoch, marks |-> j.marks, complete |-> j.complete, jitter |-> j.jitter]

\* An enrolled participant without rentals.
Init ==
    /\ world \in Worlds
    /\ consent = [on |-> TRUE, epoch |-> 1, pending |-> "none"]
    /\ running = [on |-> TRUE, ok |-> TRUE]
    /\ journals = Empty /\ file = Empty
    /\ meter = [s \in Sessions |-> NoMeter]
    /\ hook = NoHook
    /\ upload = NoUpload
    /\ received = [s \in Sessions |-> [rev |-> 0, body |-> Snapshot(NoJournal)]]
    /\ reviews = [s \in Sessions |-> "none"]
    /\ wanted = [s \in Sessions |-> "none"]
    /\ trouble = 0

Held(js) == {s \in Sessions : js[s].rev > 0}
Destroyed(j) == "destroyed" \in j.marks
Operating == running.on /\ running.ok
Permits == Operating /\ consent.on

Fault(b) == May(b) /\ trouble < MaxMishaps /\ trouble' = trouble + 1
NoFault == trouble' = trouble

----------------------------------------------------------------------------
(* journal.rs: pure operations on a journal.                               *)

Pending(epoch) == [NoJournal EXCEPT !.epoch = epoch, !.rev = 1, !.complete = TRUE, !.marks = {"rentalStarted"}]

Confirm(j, recovered) ==
    [j EXCEPT !.inst = TRUE, !.rev = @ + 1, !.complete = @ /\ ~recovered]

Milestone(j, key) ==
    IF Destroyed(j) THEN j ELSE [j EXCEPT !.marks = @ \union {key}]

ReadyAndPaired(j, facts) ==
    LET seen == IF Destroyed(j) THEN j ELSE [j EXCEPT !.marks = @ \union facts]
    IN IF {"ready", "paired"} \subseteq seen.marks THEN Milestone(seen, "setupSuccess") ELSE seen

\* A change of the lifecycle is a new revision.
Revised(old, new) == IF new = old THEN old ELSE [new EXCEPT !.rev = @ + 1]

MarkGap(j) ==
    IF j.rev = 0 \/ Destroyed(j) \/ ~j.complete THEN j
    ELSE [j EXCEPT !.complete = FALSE, !.rev = @ + 1]

ReviewEligible(j) == j.inst /\ j.machine /\ "firstStreamFrame" \in j.marks /\ ~j.gone /\ ~j.rejected

Deliverable(j) == j.inst /\ j.machine /\ ~j.rejected

\* Room for one more: only a fully delivered journal of a destroyed rental is dropped.
Disposable(j) ==
    /\ Destroyed(j) /\ j.rev = j.ack
    /\ j.review.rev = j.review.ack
MakeRoom(js) ==
    IF Cardinality(Held(js)) < MaxSessions \/ {s \in Held(js) : Disposable(js[s])} = {} THEN js
    ELSE [js EXCEPT ![CHOOSE s \in Held(js) : Disposable(js[s])] = NoJournal]

----------------------------------------------------------------------------
(* commit: the file first, then memory.                                    *)

\* Journals that are dropped lose their accumulators.
Retained(js) == [s \in Sessions |-> IF js[s].rev = 0 THEN NoMeter ELSE meter[s]]

\* `done` and `failed` are the delivery in flight after a save and after a failed one.
Save(next, done, failed) ==
    \/ /\ NoFault
       /\ file' = next /\ journals' = next
       /\ meter' = Retained(next)
       /\ upload' = done
       /\ running' = [running EXCEPT !.ok = TRUE]
    \/ /\ Fault("disk")
       /\ file' \in {file, next}          \* the file may be in place when its mode cannot be set
       /\ journals' = [s \in Sessions |-> MarkGap(journals[s])]
       /\ meter' = [s \in Sessions |-> NoMeter]
       /\ running' = [on |-> FALSE, ok |-> FALSE]
       /\ upload' = failed

Commit(next) == Save(next, upload, [upload EXCEPT !.cancelled = TRUE])

Saved == running'.ok

Change(s, j) ==
    /\ j # journals[s] /\ j.rev <= MaxRevision
    /\ Commit([journals EXCEPT ![s] = j])
    /\ UNCHANGED <<consent, hook, received, reviews>>

----------------------------------------------------------------------------
(* Hooks of a rental.                                                      *)

\* begin_rental and confirm_rental read the state...
HookRead(s, kind) ==
    /\ hook.pc = "idle" /\ kind \in {"begin", "confirm"}
    /\ IF kind = "begin" THEN journals[s].rev = 0 /\ file[s].rev = 0 /\ wanted[s] = "none" /\ received[s].rev = 0
       ELSE journals[s].rev > 0 /\ ~journals[s].inst
    /\ Permits
    /\ kind = "begin" => consent.pending = "none"
    /\ hook' = [pc |-> kind, s |-> s, epoch |-> consent.epoch]
    /\ UNCHANGED <<consent, running, journals, file, meter, upload, received, reviews, wanted, trouble>>

\* ... and then take the lock.
BeginRental ==
    /\ hook.pc = "begin"
    /\ hook' = NoHook
    /\ LET roomy == MakeRoom(journals)
       IN IF Operating /\ Cardinality(Held(roomy)) < MaxSessions
          THEN Commit([roomy EXCEPT ![hook.s] = Pending(hook.epoch)])
          ELSE NoFault /\ UNCHANGED <<running, journals, file, meter, upload>>
    /\ UNCHANGED <<consent, received, reviews, wanted>>

ConfirmRental ==
    /\ hook.pc = "confirm"
    /\ hook' = NoHook
    /\ LET j == journals[hook.s]
       IN IF Operating /\ j.rev > 0 /\ j.epoch = hook.epoch /\ ~j.inst
          THEN \E recovered \in BOOLEAN : Commit([journals EXCEPT ![hook.s] = Confirm(j, recovered)])
          ELSE NoFault /\ UNCHANGED <<running, journals, file, meter, upload>>
    /\ UNCHANGED <<consent, received, reviews, wanted>>

AbandonUnconfirmed(s) ==
    /\ Permits /\ journals[s].rev > 0 /\ ~journals[s].inst /\ hook.pc = "idle"
    /\ Commit([journals EXCEPT ![s] = NoJournal])
    /\ UNCHANGED <<consent, hook, received, reviews, wanted>>

\* observe_state and confirmed_pairing: what the saved state of the rental
\* shows.  A machine other than the one already noted excludes the journal.
Excluded(j) == [j EXCEPT !.rejected = TRUE, !.complete = FALSE]
ObserveState(s) ==
    /\ Permits /\ journals[s].inst /\ ~journals[s].rejected /\ ~Destroyed(journals[s])
    /\ LET j == journals[s]
           named == [j EXCEPT !.machine = TRUE]
       IN  \/ /\ May("conflict") /\ j.machine
              /\ Change(s, Revised(j, Excluded(j)))
           \/ \E facts \in {f \in SUBSET {"ready", "paired"} : May("setup") \/ f = {}} :
                 Change(s, Revised(j, IF j.gone THEN named ELSE ReadyAndPaired(named, facts)))
    /\ UNCHANGED wanted

\* finalize: the provider confirmed the destruction, asked for by the user or by someone else.
Finalize(s, external) ==
    /\ Permits /\ journals[s].inst
    /\ external => May("missing") /\ ~Destroyed(journals[s])    \* tracked_instances lists living rentals
    /\ LET j == journals[s]
           lost == IF external THEN [MarkGap(j) EXCEPT !.gone = TRUE, !.review = NoReview] ELSE j
       IN Change(s, Revised(lost, Milestone(lost, "destroyed")))
    /\ wanted' = IF external /\ Saved THEN [wanted EXCEPT ![s] = "dropped"] ELSE wanted

\* reconcile_missing: a rental that is not listed is set aside, one that is listed again is taken back.
Reconcile(s) ==
    /\ May("missing") /\ Permits /\ journals[s].inst /\ ~Destroyed(journals[s])
    /\ LET j == journals[s]
       IN IF j.gone THEN Change(s, [j EXCEPT !.gone = FALSE, !.rev = @ + 1])
          ELSE Change(s, [MarkGap(j) EXCEPT !.gone = TRUE, !.review = NoReview, !.rev = @ + 1])
    /\ wanted' = IF Saved THEN [wanted EXCEPT ![s] = "dropped"] ELSE wanted

\* stage_review: a rating, or both fields empty to take it back.
StageReview(s, text) ==
    /\ May("review") /\ Permits
    /\ ReviewEligible(journals[s]) /\ ~Destroyed(journals[s])
    /\ journals[s].review.rev < MaxRevision
    /\ Change(s, [journals[s] EXCEPT !.review = [NoReview EXCEPT !.rev = journals[s].review.rev + 1, !.text = text]])
    /\ wanted' = IF Saved THEN [wanted EXCEPT ![s] = text] ELSE wanted

----------------------------------------------------------------------------
(* Hooks of the stream.                                                    *)

Live(j) == j.inst /\ ~Destroyed(j) /\ ~j.gone /\ ~j.rejected

\* observe_runtime: the first frame that arrived.
FirstFrame(s) ==
    /\ May("frames") /\ Permits /\ Live(journals[s])
    /\ LET j == journals[s]
       IN Change(s, Revised(j, Milestone(j, "firstStreamFrame")))
    /\ UNCHANGED wanted

\* JitterAccumulator::start and observe: a segment counts once it has been warm for a window.
MeterStart(s) ==
    /\ May("frames") /\ Permits /\ Live(journals[s]) /\ "firstStreamFrame" \in journals[s].marks
    /\ meter[s].segment = "none"
    /\ meter' = [meter EXCEPT ![s] = [segment |-> "warming",
                                      count |-> IF @.count = 0 THEN journals[s].jitter ELSE @.count]]
    /\ UNCHANGED <<consent, running, journals, file, hook, upload, received, reviews, wanted, trouble>>

MeterObserve(s) ==
    /\ Permits /\ Live(journals[s]) /\ meter[s].segment # "none" /\ meter[s].count < 2
    /\ meter' = [meter EXCEPT ![s] = IF @.segment = "warming" THEN [@ EXCEPT !.segment = "warm"]
                                     ELSE [@ EXCEPT !.count = @ + 1]]
    /\ UNCHANGED <<consent, running, journals, file, hook, upload, received, reviews, wanted, trouble>>

\* Mutant: new measurements keep the revision.
CheckpointedInPlace ==
    [s \in Sessions |-> IF journals[s].rev > 0 /\ meter[s].segment # "none"
                        THEN [journals[s] EXCEPT !.jitter = meter[s].count] ELSE journals[s]]

\* checkpoint_accumulators: new measurements are a new revision.
Checkpointed ==
    [s \in Sessions |-> IF journals[s].rev > 0 /\ meter[s].segment # "none" /\ meter[s].count # journals[s].jitter
                        THEN [journals[s] EXCEPT !.jitter = meter[s].count, !.rev = @ + 1] ELSE journals[s]]

Checkpoint ==
    /\ running.on /\ Checkpointed # journals
    /\ \A s \in Sessions : Checkpointed[s].rev <= MaxRevision
    /\ Commit(Checkpointed)
    /\ UNCHANGED <<consent, hook, received, reviews, wanted>>

\* observation_gap: after a sleep the measurements are saved and every living rental has a gap.
ObservationGap ==
    /\ running.on /\ Fault("suspended")
    /\ LET next == [s \in Sessions |-> MarkGap(Checkpointed[s])]
       IN /\ \A s \in Sessions : next[s].rev <= MaxRevision
          /\ journals' = next /\ file' = next
    /\ meter' = [s \in Sessions |-> [meter[s] EXCEPT !.segment = "none"]]
    /\ UNCHANGED <<consent, running, hook, upload, received, reviews, wanted>>

----------------------------------------------------------------------------
(* deliver: a copy of every deliverable journal, one after the other.      *)

Jobs == {s \in Held(journals) : Deliverable(journals[s])}

UploadBegin ==
    /\ upload.pc = "idle" /\ Permits /\ consent.pending = "none" /\ Jobs # {}
    /\ upload' = [NoUpload EXCEPT !.pc = "next", !.jobs = [s \in Jobs |-> journals[s]]]
    /\ UNCHANGED <<consent, running, journals, file, meter, hook, received, reviews, wanted, trouble>>

UploadNext ==
    /\ upload.pc = "next"
    /\ IF DOMAIN upload.jobs = {} THEN upload' = NoUpload
       ELSE \E s \in DOMAIN upload.jobs :
                upload' = [upload EXCEPT !.s = s, !.j = upload.jobs[s],
                                         !.jobs = [t \in DOMAIN upload.jobs \ {s} |-> upload.jobs[t]],
                                         !.pc = IF upload.jobs[s].rev > upload.jobs[s].ack THEN "put" ELSE "review"]
    /\ UNCHANGED <<consent, running, journals, file, meter, hook, received, reviews, wanted, trouble>>

\* participant: the permission and the epoch are looked at when the request leaves.
Admitted == Permits /\ consent.pending = "none" /\ upload.j.epoch = consent.epoch /\ ~upload.cancelled
GiveUp == upload' = NoUpload

PutJournal ==
    /\ upload.pc = "put"
    /\ LET newest == received[upload.s].rev <= upload.j.rev
           taken == [received EXCEPT ![upload.s] = [rev |-> upload.j.rev, body |-> Snapshot(upload.j)]]
       IN IF ~Admitted THEN GiveUp /\ NoFault /\ UNCHANGED received
          ELSE \/ /\ newest /\ NoFault
                  /\ received' = taken
                  /\ upload' = [upload EXCEPT !.pc = "ack"]
               \/ /\ Fault("lost")
                  /\ received' \in {received, IF newest THEN taken ELSE received}
                  /\ GiveUp
    /\ UNCHANGED <<consent, running, journals, file, meter, hook, reviews, wanted>>

\* 4xx: the journal is not delivered again.
PutRefused ==
    /\ upload.pc \in {"put", "sendReview"} /\ Admitted
    /\ May("refused") /\ trouble < MaxMishaps /\ trouble' = trouble + 1
    /\ LET j == journals[upload.s]
           next == [journals EXCEPT ![upload.s] =
                       IF j.rev = 0 THEN j
                       ELSE IF upload.pc = "put" THEN [j EXCEPT !.rejected = TRUE]
                       ELSE [j EXCEPT !.review.rejected = (j.review.rev > 0)]]
       IN journals' = next /\ file' = next
    /\ GiveUp
    /\ UNCHANGED <<consent, running, meter, hook, received, reviews, wanted>>

AckJournal ==
    /\ upload.pc = "ack"
    /\ LET j == journals[upload.s]
           next == [journals EXCEPT ![upload.s].ack = IF j.rev = 0 \/ j.ack > upload.j.rev THEN @ ELSE upload.j.rev]
       IN Save(next, [upload EXCEPT !.pc = "review"], NoUpload)
    /\ UNCHANGED <<consent, hook, received, reviews, wanted>>

ReviewDue(j) ==
    /\ Destroyed(j) /\ ReviewEligible(j)
    /\ j.review.rev > j.review.ack /\ ~j.review.rejected

TakeReview ==
    /\ upload.pc = "review"
    /\ upload' = [upload EXCEPT !.pc = IF ReviewDue(upload.j) THEN "sendReview" ELSE "next"]
    /\ UNCHANGED <<consent, running, journals, file, meter, hook, received, reviews, wanted, trouble>>

\* PUT of a rating, or DELETE when it was taken back.
PutReview ==
    /\ upload.pc = "sendReview"
    /\ LET rated == [reviews EXCEPT ![upload.s] = upload.j.review.text]
       IN IF ~Admitted THEN GiveUp /\ NoFault /\ UNCHANGED reviews
          ELSE \/ /\ NoFault
                  /\ reviews' = rated
                  /\ upload' = [upload EXCEPT !.pc = "ackReview"]
               \/ /\ Fault("lost")
                  /\ reviews' \in {reviews, rated}
                  /\ GiveUp
    /\ UNCHANGED <<consent, running, journals, file, meter, hook, received, wanted>>

AckReview ==
    /\ upload.pc = "ackReview"
    /\ LET j == journals[upload.s]
           next == IF j.rev > 0 /\ j.review.rev = upload.j.review.rev
                   THEN [journals EXCEPT ![upload.s].review.ack = j.review.rev] ELSE journals
       IN Save(next, [upload EXCEPT !.pc = "next"], NoUpload)
    /\ UNCHANGED <<consent, hook, received, reviews, wanted>>

\* deliver prunes what is older than 30 days.
Prune(s) ==
    /\ Fault("old") /\ journals[s].rev > 0 /\ upload.pc = "idle"
    /\ journals' = [journals EXCEPT ![s] = NoJournal]
    /\ file' = journals'
    /\ meter' = [meter EXCEPT ![s] = NoMeter]
    /\ UNCHANGED <<consent, running, hook, upload, received, reviews, wanted>>

----------------------------------------------------------------------------
(* The choices of the user, as they reach the journals.                    *)

\* consent: delivery is cancelled; the choice waits for the server.
ChooseScope ==
    /\ May("consent") /\ consent.pending = "none" /\ consent.epoch < MaxEpoch /\ upload.pc = "idle"
    /\ consent' = [consent EXCEPT !.pending = "on"]
    /\ UNCHANGED <<running, journals, file, meter, hook, upload, received, reviews, wanted, trouble>>

Withdraw ==
    /\ May("consent") /\ consent.pending = "none" /\ consent.on /\ consent.epoch < MaxEpoch /\ upload.pc = "idle"
    /\ consent' = [consent EXCEPT !.on = FALSE, !.pending = "off"]
    /\ running' = [on |-> FALSE, ok |-> TRUE]
    /\ journals' = Empty /\ file' = Empty
    /\ meter' = [s \in Sessions |-> NoMeter]
    /\ UNCHANGED <<hook, upload, received, reviews, wanted, trouble>>

\* synchronize_control: a kept choice moves the journals to the new epoch...
SyncJournals ==
    /\ consent.pending = "on" /\ consent.on /\ upload.pc = "idle"
    /\ LET next == [s \in Sessions |-> IF journals[s].rev = 0 \/ journals[s].epoch = consent.epoch + 1 THEN journals[s]
                                       ELSE [journals[s] EXCEPT !.epoch = consent.epoch + 1, !.rev = @ + 1]]
       IN /\ \A s \in Sessions : next[s].rev <= MaxRevision
          /\ Commit(next)
    /\ consent' = IF Saved THEN [consent EXCEPT !.pending = "saving"] ELSE consent
    /\ UNCHANGED <<hook, received, reviews, wanted>>

\* ... and only then is the epoch saved.
SyncSave ==
    /\ consent.pending = "saving" \/ (consent.pending \in {"on", "off"} /\ ~consent.on)
    /\ consent' = [on |-> consent.pending # "off", epoch |-> consent.epoch + 1, pending |-> "none"]
    /\ running' = [running EXCEPT !.on = consent'.on /\ running.ok]
    /\ UNCHANGED <<journals, file, meter, hook, upload, received, reviews, wanted, trouble>>

\* The desktop dies; initialize marks a gap in everything it finds.
Crash ==
    /\ Fault("crash")
    /\ journals' = [s \in Sessions |-> MarkGap(file[s])]
    /\ file' = journals'
    /\ meter' = [s \in Sessions |-> NoMeter]
    /\ hook' = NoHook /\ upload' = NoUpload
    /\ consent' = [consent EXCEPT !.pending = IF @ = "saving" THEN "on" ELSE @]
    /\ running' = [on |-> consent.on, ok |-> TRUE]
    /\ UNCHANGED <<received, reviews, wanted>>

----------------------------------------------------------------------------
Next ==
    /\ \/ \E s \in Rentals :
            \/ \E kind \in {"begin", "confirm"} : HookRead(s, kind)
            \/ AbandonUnconfirmed(s) \/ ObserveState(s) \/ Reconcile(s)
            \/ \E external \in BOOLEAN : Finalize(s, external)
            \/ \E text \in {"rating", "cleared"} : StageReview(s, text)
            \/ FirstFrame(s) \/ MeterStart(s) \/ MeterObserve(s) \/ Prune(s)
       \/ BeginRental \/ ConfirmRental \/ Checkpoint \/ ObservationGap
       \/ UploadBegin \/ UploadNext \/ PutJournal \/ PutRefused \/ AckJournal
       \/ TakeReview \/ PutReview \/ AckReview
       \/ ChooseScope \/ Withdraw \/ SyncJournals \/ SyncSave \/ Crash
    /\ UNCHANGED world

Spec == Init /\ [][Next]_vars

----------------------------------------------------------------------------
\* A revision is never rewritten: whatever crashes, fails to be written or is
\* delivered twice, a journal does not fall behind the revision the server has,
\* has the same content at that revision, and holds nothing as acknowledged
\* that the server lacks (Journal, commit, deliver).
RevisionsStable ==
    \A s \in Held(journals) :
        /\ journals[s].ack <= received[s].rev /\ received[s].rev <= journals[s].rev
        /\ journals[s].rev = received[s].rev => Snapshot(journals[s]) = received[s].body

\* A rating reaches the server only as the user left it: a draft that was
\* replaced, taken back, or dropped because the rental vanished is never
\* published (stage_review, reconcile_missing, deliver).
DraftsRespected ==
    \A s \in Sessions : reviews[s] # "none" => reviews[s] = wanted[s]

============================================================================
