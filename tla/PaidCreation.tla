---------------------------- MODULE PaidCreation ----------------------------
(***************************************************************************)
(* Renting a server.  A run of the desktop's orchestration persists an     *)
(* intent before it sends the paid request, so that a rental whose answer  *)
(* was lost is found again by its label before another is requested.  The  *)
(* intent lives in the application's state, which the run shares with the  *)
(* commands of the window: resuming a server reloads the file, refreshing  *)
(* the server list reconciles the records, the user may acknowledge that   *)
(* a request came to nothing or enter another provider key.                *)
(*                                                                         *)
(* update_state writes the file and then memory under the state's lock;    *)
(* reload_state_from_disk reads and rewrites the file without it.          *)
(***************************************************************************)
EXTENDS Naturals, FiniteSets

CONSTANTS Requests,     \* request ids; a rental is named by its request's label
          Keys,         \* provider keys, each of an account of its own
          Nil,
          MaxCrashes,   \* bound: exits of the application
          MaxSwitches,  \* bound: changes of the provider key
          Worlds        \* which of AllBehaviours may happen besides the normal course

AllBehaviours ==
    {"saveFails",  \* saving the state fails, before or after the file is replaced
     "late",       \* the provider decides after the caller has given up
     "lag",        \* a listing leaves out rentals
     "ack",        \* the user acknowledges that a request came to nothing
     "ackEarly",   \* ... also while the run that sent it is still waiting
     "refresh",    \* the server list is refreshed
     "resume",     \* a server is resumed while no run is busy
     "reload"}     \* a server is resumed while a run is busy

ASSUME CreationAssumption ==
    /\ Nil \notin Requests \cup Keys
    /\ MaxCrashes \in Nat
    /\ MaxSwitches \in Nat
    /\ Worlds \subseteq SUBSET AllBehaviours

VARIABLES
    disk, mem,   \* the state file and AppContext::state
    run,         \* the orchestration, one at a time (orchestration_guard)
    loads,       \* reload_state_from_disk: in the run and in the resume command
    ack,         \* clear_unconfirmed
    poll,        \* get_rented_instances
    fate,        \* what became of each request at the provider
    owner,       \* the key each request was sent with
    booked,      \* rentals that ever had a server record in the file (history)
    crashes, switches,
    world

commands == <<loads, ack, poll>>
provider == <<fate, owner>>
counters == <<crashes, switches>>
vars == <<disk, mem, run, commands, provider, booked, counters, world>>

May(b) == b \in world

NoAttempt == [req |-> Nil, key |-> Nil, confirmed |-> Nil]
Attempts == {NoAttempt} \cup
            [req: Requests, key: Keys, confirmed: Requests \cup {Nil}]
States == [key: Keys, pending: Attempts, servers: SUBSET Requests,
           active: Requests \cup {Nil}]
Pending(s) == s.pending # NoAttempt

IdleRun == [pc |-> "idle", key |-> Nil, attempt |-> NoAttempt, got |-> Nil]
IdleLoad == [pc |-> "idle", snap |-> Nil]
IdleAck == [pc |-> "idle", attempt |-> NoAttempt]
IdlePoll == [pc |-> "idle", key |-> Nil, owned |-> {}, clear |-> FALSE]

\* The application starts with an account that may hold an older rental.
Init ==
    /\ world \in Worlds
    /\ \E old \in Requests \cup {Nil}, k \in Keys :
          /\ disk = [key |-> k, pending |-> NoAttempt, servers |-> {old} \ {Nil},
                     active |-> Nil]
          /\ fate = [r \in Requests |-> IF r = old THEN "rented" ELSE "new"]
          /\ owner = [r \in Requests |-> IF r = old THEN k ELSE Nil]
          /\ booked = {old} \ {Nil}
    /\ mem = disk
    /\ run = IdleRun
    /\ loads = [l \in {"run", "command"} |-> IdleLoad]
    /\ ack = IdleAck
    /\ poll = IdlePoll
    /\ crashes = 0
    /\ switches = 0

At(pc) == run.pc = pc
RunAt(pc) == run' = [run EXCEPT !.pc = pc]
RunEnds == run' = IdleRun

\* update_state: the change on a copy, the file, then memory.  A failure
\* after the rename leaves the new file under the old memory.
Saved(next) == disk' = next /\ mem' = next
NotSaved(next) ==
    /\ May("saveFails")
    /\ disk' \in {disk, next}
    /\ mem' = mem

\* A step of the run that saves: on an error the run ends.
SaveAndGo(next, pc) ==
    \/ Saved(next) /\ RunAt(pc)
    \/ NotSaved(next) /\ RunEnds

Rentals(k) == {r \in Requests : fate[r] = "rented" /\ owner[r] = k}
\* The answers of list_instances.
Listing(k) == IF May("lag") THEN SUBSET Rentals(k) ELSE {Rentals(k)}

-----------------------------------------------------------------------------
\* run_orchestration up to the paid request.

\* Without overlaps, nobody starts a run while a resumed server is reloading.
NoReload == May("reload") \/ loads["command"].pc = "idle"
RunStart ==
    /\ At("idle")
    /\ NoReload
    /\ run' = [IdleRun EXCEPT !.pc = "recover", !.key = mem.key]
    /\ UNCHANGED <<disk, mem, commands, provider>>

\* recover reads the intent; one of another key is ambiguous.
RecoverRead ==
    /\ At("recover")
    /\ IF ~Pending(mem) THEN RunAt("prepare")
       ELSE IF mem.pending.key # mem.key THEN RunEnds
       ELSE run' = [run EXCEPT !.pc = "match", !.attempt = mem.pending]
    /\ UNCHANGED <<disk, mem, commands, provider>>

\* It lists the account and wants exactly one match, by confirmed id or label.
Matches(seen, a) == {r \in seen : r \in {a.confirmed, a.req}}
RecoverList ==
    /\ At("match")
    /\ \/ RunEnds
       \/ \E seen \in Listing(run.key) :
             IF Cardinality(Matches(seen, run.attempt)) = 1
             THEN \E r \in Matches(seen, run.attempt) :
                     run' = [run EXCEPT !.pc = "check", !.got = r]
             ELSE RunEnds
    /\ UNCHANGED <<disk, mem, commands, provider>>
\* It looks at the key once more; the save that follows does not.
RecoverCheck ==
    /\ At("check")
    /\ IF mem.key # run.attempt.key THEN RunEnds ELSE RunAt("adopt")
    /\ UNCHANGED <<disk, mem, commands, provider>>

\* The intent is replaced by the rental's record and the run continues with it.
Adopted(s, r) ==
    [s EXCEPT !.active = r, !.servers = @ \cup {r}, !.pending = NoAttempt]
RecoverAdopt ==
    /\ At("adopt")
    /\ SaveAndGo(Adopted(mem, run.got), "existing")
    /\ UNCHANGED <<commands, provider>>

\* The run is cancelled, or a call before the paid request fails.
RunStops ==
    /\ run.pc \in {"prepare", "intent", "keep"}
    /\ RunEnds
    /\ UNCHANGED <<disk, mem, commands, provider>>

\* prepare checks the key and the intent, and after the feedback call saves its own.
PrepareCheck ==
    /\ At("prepare")
    /\ IF mem.key # run.key \/ Pending(mem) THEN RunEnds ELSE RunAt("intent")
    /\ UNCHANGED <<disk, mem, commands, provider>>

PrepareSaveIgnoringErrors ==
    /\ At("intent")
    /\ \E r \in Requests :
          /\ fate[r] = "new"
          /\ fate' = [fate EXCEPT ![r] = "drawn"]
          /\ LET a == [req |-> r, key |-> run.key, confirmed |-> Nil]
             IN  /\ run' = [run EXCEPT !.pc = "send", !.attempt = a]
                 /\ \/ Saved([mem EXCEPT !.pending = a])
                    \/ NotSaved([mem EXCEPT !.pending = a])
    /\ UNCHANGED <<commands, owner>>
PrepareSave ==
    /\ At("intent")
    /\ \E r \in Requests :
          /\ fate[r] = "new"
          /\ fate' = [fate EXCEPT ![r] = "drawn"]
          /\ LET a == [req |-> r, key |-> run.key, confirmed |-> Nil]
             IN  \/ /\ Saved([mem EXCEPT !.pending = a])
                    /\ run' = [run EXCEPT !.pc = "send", !.attempt = a]
                 \/ NotSaved([mem EXCEPT !.pending = a]) /\ RunEnds
    /\ UNCHANGED <<commands, owner>>

-----------------------------------------------------------------------------
\* The paid request and its answer.

\* The provider rents, refuses or never sees the request; or it decides later.
Send ==
    /\ At("send")
    /\ RunAt("wait")
    /\ \E f \in {"rented", "refused", "lost"} \cup (IF May("late") THEN {"open"} ELSE {}) :
          fate' = [fate EXCEPT ![run.attempt.req] = f]
    /\ owner' = [owner EXCEPT ![run.attempt.req] = run.key]
    /\ UNCHANGED <<disk, mem, commands>>
DecideLate ==
    /\ \E r \in Requests, f \in {"rented", "refused"} :
          /\ fate[r] = "open"
          /\ fate' = [fate EXCEPT ![r] = f]
    /\ UNCHANGED <<disk, mem, run, commands, owner>>

\* A contract id, a definite refusal, or neither (timeout, server error, an
\* answer without the id): the intent stays and the run ends.
Answer ==
    /\ At("wait")
    /\ \/ fate[run.attempt.req] = "rented" /\ RunAt("confirm")
       \/ fate[run.attempt.req] = "refused" /\ RunAt("refused")
       \/ RunEnds
    /\ UNCHANGED <<disk, mem, commands, provider>>

\* accepted: whatever intent is in the state is confirmed; errors are ignored.
Confirmed(s, r) == IF Pending(s) THEN [s EXCEPT !.pending.confirmed = r] ELSE s
accepted ==
    /\ At("confirm")
    /\ LET next == Confirmed(mem, run.attempt.req) IN Saved(next) \/ NotSaved(next)
    /\ run' = [run EXCEPT !.pc = "keep", !.got = run.attempt.req]
    /\ UNCHANGED <<commands, provider>>

KeepInstance ==
    /\ At("keep")
    /\ SaveAndGo([mem EXCEPT !.active = run.got], "record")
    /\ UNCHANGED <<commands, provider>>
ensure_server_record ==
    /\ At("record")
    /\ SaveAndGo([mem EXCEPT !.servers = @ \cup {run.got}], "complete")
    /\ UNCHANGED <<commands, provider>>
ClearConfirmed(s, r) ==
    IF s.pending.confirmed = r THEN [s EXCEPT !.pending = NoAttempt] ELSE s
complete ==
    /\ At("complete")
    /\ LET next == ClearConfirmed(mem, run.got) IN Saved(next) \/ NotSaved(next)
    /\ RunEnds
    /\ UNCHANGED <<commands, provider>>

\* rejected: errors are ignored.  Then an offer that is gone falls back to a
\* rental of the account, if the listing shows one.
ClearAttempt(s, a) ==
    IF s.pending.req = a.req THEN [s EXCEPT !.pending = NoAttempt] ELSE s
rejected ==
    /\ At("refused")
    /\ LET next == ClearAttempt(mem, run.attempt) IN Saved(next) \/ NotSaved(next)
    /\ RunAt("fallback")
    /\ UNCHANGED <<commands, provider>>
Fallback ==
    /\ At("fallback")
    /\ \/ RunEnds /\ UNCHANGED <<disk, mem>>
       \/ \E seen \in Listing(run.key) : \E r \in seen :
             \/ /\ Saved([mem EXCEPT !.active = r])
                /\ run' = [run EXCEPT !.pc = "existing", !.got = r]
             \/ NotSaved([mem EXCEPT !.active = r]) /\ RunEnds
    /\ UNCHANGED <<commands, provider>>

-----------------------------------------------------------------------------
\* run_existing_instance_orchestration: it reloads the state from the file
\* and makes the instance the active one with a record.

StartExisting ==
    /\ At("idle")
    /\ NoReload
    /\ \E r \in mem.servers : run' = [IdleRun EXCEPT !.pc = "existing", !.got = r]
    /\ UNCHANGED <<disk, mem, commands, provider>>

\* reload_state_from_disk: load_state reads the file and writes it back, then
\* memory is replaced; only the last step takes the lock.
LoadRead(l) ==
    /\ loads[l].pc = "idle"
    /\ l = "run" => At("existing")
    /\ l = "command" => (May("resume") /\ At("idle")) \/ May("reload")
    /\ loads' = [loads EXCEPT ![l] = [pc |-> "read", snap |-> disk]]
    /\ run' = IF l = "run" THEN [run EXCEPT !.pc = "loading"] ELSE run
    /\ UNCHANGED <<disk, mem, ack, poll, provider>>
LoadSave(l) ==
    /\ loads[l].pc = "read"
    /\ \/ /\ disk' = loads[l].snap
          /\ loads' = [loads EXCEPT ![l].pc = "saved"]
          /\ UNCHANGED run
       \/ /\ May("saveFails")
          /\ disk' \in {disk, loads[l].snap}
          /\ loads' = [loads EXCEPT ![l] = IdleLoad]
          /\ run' = IF l = "run" THEN IdleRun ELSE run
    /\ UNCHANGED <<mem, ack, poll, provider>>
LoadInstall(l) ==
    /\ loads[l].pc = "saved"
    /\ mem' = loads[l].snap
    /\ loads' = [loads EXCEPT ![l] = IdleLoad]
    /\ run' = IF l = "run" THEN [run EXCEPT !.pc = "loaded"] ELSE run
    /\ UNCHANGED <<disk, ack, poll, provider>>

UseExisting ==
    /\ At("loaded")
    /\ LET next == [mem EXCEPT !.active = run.got, !.servers = @ \cup {run.got}]
       IN  Saved(next) \/ NotSaved(next)
    /\ RunEnds
    /\ UNCHANGED <<commands, provider>>

-----------------------------------------------------------------------------
\* clear_unconfirmed: the user has looked and says the request came to nothing.

AckCheck ==
    /\ May("ack")
    /\ May("ackEarly") \/ At("idle")
    /\ ack.pc = "idle"
    /\ Pending(mem)
    /\ mem.pending.key = mem.key
    /\ mem.pending.confirmed = Nil
    /\ ack' = [pc |-> "list", attempt |-> mem.pending]
    /\ UNCHANGED <<disk, mem, run, loads, poll, provider>>
\* Absence is checked again; a listing that fails is no evidence.
AckListTrusting ==
    /\ ack.pc = "list"
    /\ ack' \in {IdleAck, [ack EXCEPT !.pc = "check"]}
    /\ UNCHANGED <<disk, mem, run, loads, poll, provider>>
AckList ==
    /\ ack.pc = "list"
    /\ \/ ack' = IdleAck
       \/ \E seen \in Listing(ack.attempt.key) :
             /\ ack.attempt.req \notin seen
             /\ ack' = [ack EXCEPT !.pc = "check"]
    /\ UNCHANGED <<disk, mem, run, loads, poll, provider>>
\* The key is compared once more, and then the intent is taken out.
AckCheckKey ==
    /\ ack.pc = "check"
    /\ ack' = IF mem.key # ack.attempt.key THEN IdleAck ELSE [ack EXCEPT !.pc = "clear"]
    /\ UNCHANGED <<disk, mem, run, loads, poll, provider>>
AckClear ==
    /\ ack.pc = "clear"
    /\ ack' = IdleAck
    /\ LET next == ClearAttempt(mem, ack.attempt) IN Saved(next) \/ NotSaved(next)
    /\ UNCHANGED <<run, loads, poll, provider>>

-----------------------------------------------------------------------------
\* The other writers of the state.

\* get_rented_instances: the listing, what it makes obsolete, the removal, and
\* a record for every rental listed.
PollList ==
    /\ May("refresh")
    /\ poll.pc = "idle"
    /\ \E seen \in Listing(mem.key) :
          poll' = [pc |-> "decide", key |-> mem.key, owned |-> seen, clear |-> FALSE]
    /\ UNCHANGED <<disk, mem, run, loads, ack, provider>>
PollDecide ==
    /\ poll.pc = "decide"
    /\ LET clear == mem.active # Nil /\ mem.active \notin poll.owned
       IN  poll' = IF mem.key # poll.key THEN IdlePoll
                   ELSE IF clear \/ ~(mem.servers \subseteq poll.owned)
                   THEN [poll EXCEPT !.pc = "remove", !.clear = clear]
                   ELSE [poll EXCEPT !.pc = "add"]
    /\ UNCHANGED <<disk, mem, run, loads, ack, provider>>
PollRemove ==
    /\ poll.pc = "remove"
    /\ LET next == [mem EXCEPT !.servers = @ \cap poll.owned,
                               !.active = IF poll.clear THEN Nil ELSE @]
       IN  \/ Saved(next) /\ poll' = [poll EXCEPT !.pc = "add"]
           \/ NotSaved(next) /\ poll' = IdlePoll
    /\ UNCHANGED <<run, loads, ack, provider>>
PollAdd ==
    /\ poll.pc = "add"
    /\ LET next == [mem EXCEPT !.servers = @ \cup poll.owned]
       IN  Saved(next) \/ NotSaved(next)
    /\ poll' = IdlePoll
    /\ UNCHANGED <<run, loads, ack, provider>>

update_vast_api_key ==
    /\ switches < MaxSwitches
    /\ switches' = switches + 1
    /\ \E k \in Keys : Saved([mem EXCEPT !.key = k]) \/ NotSaved([mem EXCEPT !.key = k])
    /\ UNCHANGED <<run, commands, provider, crashes>>
\* Any other command or task that saves: the file becomes what memory holds.
SaveElsewhere ==
    /\ disk # mem
    /\ Saved(mem)
    /\ UNCHANGED <<run, commands, provider>>

\* The application exits and starts again with the file.
Restart ==
    /\ crashes < MaxCrashes
    /\ crashes' = crashes + 1
    /\ mem' = disk
    /\ run' = IdleRun
    /\ loads' = [l \in DOMAIN loads |-> IdleLoad]
    /\ ack' = IdleAck
    /\ poll' = IdlePoll
    /\ UNCHANGED <<disk, provider, switches>>

RunStep ==
    \/ RunStart \/ RecoverRead \/ RecoverList \/ RecoverCheck \/ RecoverAdopt \/ RunStops
    \/ PrepareCheck \/ PrepareSave \/ Send \/ Answer \/ accepted
    \/ KeepInstance \/ ensure_server_record \/ complete \/ rejected \/ Fallback
    \/ StartExisting \/ UseExisting
CommandStep ==
    \/ \E l \in DOMAIN loads : LoadRead(l) \/ LoadSave(l) \/ LoadInstall(l)
    \/ AckCheck \/ AckList \/ AckCheckKey \/ AckClear
    \/ PollList \/ PollDecide \/ PollRemove \/ PollAdd
    \/ SaveElsewhere

Next ==
    /\ \/ RunStep /\ UNCHANGED counters
       \/ CommandStep /\ UNCHANGED counters
       \/ DecideLate /\ UNCHANGED counters
       \/ update_vast_api_key
       \/ Restart
    /\ booked' = booked \cup disk'.servers
    /\ UNCHANGED world

Spec == Init /\ [][Next]_vars

-----------------------------------------------------------------------------
TypeOK ==
    /\ world \in Worlds
    /\ disk \in States /\ mem \in States
    /\ run \in [pc: {"idle", "recover", "match", "check", "adopt", "prepare", "intent", "send", "wait",
                     "confirm", "keep", "record", "complete", "refused", "fallback",
                     "existing", "loading", "loaded"},
                key: Keys \cup {Nil}, attempt: Attempts, got: Requests \cup {Nil}]
    /\ loads \in [{"run", "command"} -> [pc: {"idle", "read", "saved"}, snap: States \cup {Nil}]]
    /\ ack \in [pc: {"idle", "list", "check", "clear"}, attempt: Attempts]
    /\ poll \in [pc: {"idle", "decide", "remove", "add"}, key: Keys \cup {Nil},
                 owned: SUBSET Requests, clear: BOOLEAN]
    /\ fate \in [Requests -> {"new", "drawn", "open", "rented", "refused", "lost"}]
    /\ owner \in [Requests -> Keys \cup {Nil}]
    /\ booked \subseteq Requests
    /\ crashes \in 0..MaxCrashes /\ switches \in 0..MaxSwitches

\* The environment in which the intent is safe: no reload overlaps a run, and
\* an acknowledgement is made when the provider's answer is settled and listed.
Sheltered ==
    /\ ~May("reload") /\ ~May("ackEarly")
    /\ May("ack") => ~May("late") /\ ~May("lag")

\* A request that may still turn out to be a rental nobody has a record of.
Unresolved(r) == fate[r] \in {"open", "rented"} /\ r \notin booked

\* Crashes, failing saves, lost answers, switched keys and reconciliations
\* never separate an unresolved request from its durable intent: the intent is
\* in the file and in memory, with the key the request was paid with.
IntentKept ==
    Sheltered => \A r \in Requests : Unresolved(r) =>
        \A s \in {disk, mem} : s.pending.req = r /\ s.pending.key = owner[r]

\* ProviderCreationService: "Recover a possibly accepted paid request before
\* another is allowed": no paid request is sent while an earlier one is
\* unresolved.
NoSecondPaidRequest ==
    [][Sheltered => \A r \in Requests :
          fate[r] = "drawn" /\ fate'[r] # "drawn" => \A q \in Requests : ~Unresolved(q)]_vars
=============================================================================
