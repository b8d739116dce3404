-------------------------- MODULE FeedbackProgram --------------------------
(***************************************************************************)
(* Taking part in the feedback program (services/feedback/mod.rs).  The    *)
(* user enrols, changes the scope, withdraws, rejoins or asks for erasure; *)
(* a background loop carries these choices to the server, recovers         *)
(* interrupted ones and uploads contributions.  Calls exclude each other   *)
(* with the operation lock, but a choice stops capture and cancels the     *)
(* request in flight before it waits for that lock.  References, request   *)
(* identifiers and the server's identity of one enrolment share a number.  *)
(***************************************************************************)
EXTENDS Naturals

CONSTANTS MaxEnrolments,  \* bound: enrolments
          MaxChoices,     \* bound: calls of the user
          MaxFaults,      \* bound: crashes, lost answers and failed writes
          Worlds          \* which of AllBehaviours may happen

AllBehaviours ==
    {"scope",     \* the user changes the optional scope
     "withdraw",  \* the user withdraws, and may rejoin
     "erase",     \* the user asks for erasure
     "crash",     \* the desktop dies
     "lost",      \* a request or its answer is lost
     "storage",   \* the state file, the secret store or the spool cannot be written
     "refused",   \* the server refuses a request for good
     "revoked",   \* the server no longer accepts the credential
     "expired",   \* an enrolment is not finished within its 24 hours
     "paused",    \* the operator pauses collection
     "lookup"}    \* reviews of machines are read

Enrolments == 1..MaxEnrolments
Nothing == 0

VARIABLES
    program,     \* persisted feedback_program
    vault,       \* protected secrets
    identities,  \* the server's record of each enrolment
    service,     \* in-memory runtime of the service
    spool,       \* the outbox file holds contributions
    boot,        \* initialize()
    op,          \* holder of the operation lock
    call,        \* participant() request in flight
    asked,       \* the user's call waiting for the operation lock
    choices,     \* calls made
    mishaps,     \* faults so far
    world

feedbackVars == <<program, vault, identities, service, spool, boot, op, call, asked, choices, mishaps>>
vars == <<feedbackVars, world>>

May(b) == b \in world

NoControl == [kind |-> "none", enabled |-> FALSE, base |-> 0, after |-> FALSE]
Consent(enabled, base) == [kind |-> "consent", enabled |-> enabled, base |-> base, after |-> FALSE]
Erasure(base) == [kind |-> "delete", enabled |-> FALSE, base |-> base, after |-> FALSE]
NoProgram == [enabled |-> FALSE, status |-> "not_enrolled", ref |-> Nothing, proof |-> Nothing, aged |-> FALSE, epoch |-> 0,
              control |-> NoControl, receipt |-> "none", paused |-> FALSE]
Runtime == [initialized |-> FALSE, authorized |-> FALSE, ok |-> TRUE, stopped |-> TRUE, blocked |-> FALSE, data |-> FALSE]
NoBoot == [pc |-> "idle", credential |-> FALSE, data |-> FALSE]
NoOp == [pc |-> "idle", saw |-> NoProgram, cancelled |-> FALSE, withdrawing |-> FALSE, n |-> Nothing]
NoCall == [pc |-> "idle", kind |-> "none", epoch |-> 0, cancelled |-> FALSE]

Init ==
    /\ world \in Worlds
    /\ program = NoProgram
    /\ vault = {}
    /\ identities = [n \in Enrolments |-> [life |-> "none", epoch |-> 0]]
    /\ service = Runtime
    /\ spool = FALSE
    /\ boot = NoBoot
    /\ op = NoOp
    /\ call = NoCall
    /\ asked = "none"
    /\ choices = 0
    /\ mishaps = 0

Credential(n) == <<"credential", n>>
Proof(n) == <<"proof", n>>
Receipt(n) == <<"receipt", n>>

Enrolled(p) == p.status = "enrolled" /\ p.epoch > 0 /\ p.ref # Nothing

\* What a restart makes of the persisted program: an inconsistent one is forgotten.
Validated(p) == IF p.enabled /\ ~Enrolled(p) THEN NoProgram ELSE p

Permits(p) ==
    /\ ~service.stopped
    /\ p.enabled /\ Enrolled(p) /\ ~p.paused
    /\ service.authorized /\ service.ok

Cancelled(task) == [task EXCEPT !.cancelled = TRUE]
\* cancel_delivery: everyone who subscribed before sees the change.
CancelDelivery == op' = Cancelled(op) /\ call' = Cancelled(call)

Fault(b) == May(b) /\ mishaps < MaxFaults /\ mishaps' = mishaps + 1
NoFault == mishaps' = mishaps

----------------------------------------------------------------------------
(* The user's calls, up to the operation lock.                             *)

Press(choice) ==
    /\ asked = "none" /\ choices < MaxChoices
    /\ asked' = choice /\ choices' = choices + 1
    /\ UNCHANGED <<program, vault, identities, spool, boot, mishaps>>

PressEnroll ==
    /\ ~Enrolled(program)
    /\ Press("enroll")
    /\ UNCHANGED <<service, op, call>>

\* consent(true): delivery is cancelled before the lock is asked for.
PressScope ==
    /\ May("scope") \/ May("withdraw")
    /\ Press("scope")
    /\ CancelDelivery
    /\ UNCHANGED service

\* consent(false) and delete: stop_now comes first.
PressStop(choice) ==
    /\ Press(choice)
    /\ service' = [service EXCEPT !.stopped = TRUE]
    /\ CancelDelivery

PressWithdraw == May("withdraw") /\ PressStop("withdraw")
PressErase == May("erase") /\ PressStop("erase")

----------------------------------------------------------------------------
(* The user's calls, under the operation lock.                             *)

Locked(choice) == asked = choice /\ op.pc = "idle" /\ asked' = "none" /\ choices' = choices

\* The call returns without having changed anything.
Refuse ==
    /\ NoFault
    /\ UNCHANGED <<program, vault, identities, service, spool, boot, op, call>>

ResetRetry(s) == [s EXCEPT !.blocked = FALSE]

\* The choice is saved; a withdrawal also empties the spool.  A failed save leaves everything.
Choose(p, clear) ==
    \/ /\ NoFault
       /\ program' = p
       /\ spool' = IF clear THEN FALSE ELSE spool
       /\ service' = ResetRetry([service EXCEPT !.data = @ /\ ~clear, !.ok = @ \/ clear])
       /\ UNCHANGED <<vault, identities, boot, op, call>>
    \/ /\ Fault("storage") /\ UNCHANGED <<program, vault, identities, service, spool, boot, op, call>>
    \/ /\ clear /\ Fault("storage")     \* clear_outbox fails after the save
       /\ program' = p
       /\ service' = [service EXCEPT !.ok = FALSE, !.stopped = TRUE]
       /\ CancelDelivery
       /\ UNCHANGED <<vault, identities, spool, boot>>

ConsentRefused(choice) ==
    /\ Locked(choice) /\ choice \in {"scope", "withdraw"}
    /\ ~Enrolled(program)
    /\ Refuse

\* A control is still waiting for the server.
ConsentPending(choice) ==
    /\ Locked(choice) /\ choice \in {"scope", "withdraw"}
    /\ Enrolled(program) /\ program.control # NoControl
    /\ LET control == program.control
           enabled == choice = "scope"
       IN CASE control.kind = "consent" /\ control.enabled = enabled /\ service.blocked ->
                   service' = ResetRetry(service) /\ NoFault
                   /\ UNCHANGED <<program, vault, identities, spool, boot, op, call>>
            [] control.kind = "delete" \/ enabled -> Refuse
            [] ~control.enabled ->
                   service' = ResetRetry(service) /\ NoFault
                   /\ UNCHANGED <<program, vault, identities, spool, boot, op, call>>
            [] OTHER -> Choose([program EXCEPT !.enabled = FALSE, !.control.after = TRUE], TRUE)

\* Rejoining first reads the notices and needs a running program.
ConsentSave(choice) ==
    /\ Locked(choice) /\ choice \in {"scope", "withdraw"}
    /\ Enrolled(program) /\ program.control = NoControl
    /\ LET enabled == choice = "scope"
           joins == enabled /\ ~program.enabled
       IN \/ Choose([program EXCEPT !.enabled = @ /\ enabled,
                                    !.paused = IF joins THEN FALSE ELSE @,
                                    !.control = Consent(enabled, program.epoch)], ~enabled)
          \/ joins /\ (Fault("lost") \/ (May("paused") /\ NoFault))
             /\ UNCHANGED <<program, vault, identities, service, spool, boot, op, call>>

EraseCall ==
    /\ Locked("erase")
    /\ \/ /\ \/ program.receipt # "none" /\ program.control = NoControl
             \/ program.ref = Nothing /\ program.proof = Nothing
          /\ Refuse
       \/ /\ program.receipt = "none" \/ program.control # NoControl
          /\ program.ref # Nothing \/ program.proof # Nothing
          /\ LET kept == IF program.control.kind = "delete" THEN program.control
                         ELSE Erasure(IF program.epoch = 0 THEN 1 ELSE program.epoch)
             IN Choose([program EXCEPT !.enabled = FALSE, !.control = kept], TRUE)

\* pending_enrollment: the proof can be read, and the enrolment is younger than a day.
Resumable(p) == Proof(p.proof) \in vault /\ ~p.aged

\* An enrolment in progress is resumed; another needs the last erasure to be complete.
EnrollCall ==
    /\ Locked("enroll")
    /\ \/ /\ \/ program.control # NoControl
             \/ Enrolled(program)
             \/ program.proof = Nothing /\ program.receipt = "pending"
             \/ May("paused") /\ program.proof = Nothing
             \/ program.proof # Nothing /\ ~Resumable(program)
          /\ Refuse
       \/ /\ program.control = NoControl /\ ~Enrolled(program) /\ program.proof # Nothing
          /\ Resumable(program)
          /\ op' = [NoOp EXCEPT !.pc = "finish"]
          /\ NoFault
          /\ UNCHANGED <<program, vault, identities, service, spool, boot, call>>
       \/ /\ program.control = NoControl /\ ~Enrolled(program) /\ program.proof = Nothing
          /\ program.receipt # "pending"
          /\ \E n \in Enrolments :
                /\ identities[n].life = "none" /\ Proof(n) \notin vault
                /\ vault' = vault \union {Proof(n)}
                /\ op' = [NoOp EXCEPT !.pc = "names", !.n = n]
          /\ NoFault
          /\ UNCHANGED <<program, identities, service, spool, boot, call>>

\* All names are durable before the first request; if they cannot be saved the proof is dropped.
EnrollNames ==
    /\ op.pc = "names"
    /\ \/ /\ NoFault
          /\ program' = [NoProgram EXCEPT !.status = "pending", !.ref = op.n, !.proof = op.n]
          /\ op' = [op EXCEPT !.pc = "finish"]
          /\ vault' = {s \in vault : s[1] # "receipt"}
       \/ /\ Fault("storage")
          /\ op' = NoOp
          /\ vault' = vault \ {Proof(op.n)}
          /\ UNCHANGED program
    /\ UNCHANGED <<identities, service, spool, boot, call, asked, choices>>

----------------------------------------------------------------------------
(* Requests of the operation lock's holder.                                *)

\* A failure that is worth retrying ends the operation; one that is not blocks the loop.
Defer(retryable) ==
    /\ op' = NoOp
    /\ service' = IF retryable THEN service ELSE [service EXCEPT !.blocked = TRUE]

\* The request is answered, or it or its answer is lost, or it is refused.
Exchange(served, next) ==
    \/ /\ NoFault
       /\ identities' = served
       /\ op' = next
       /\ UNCHANGED service
    \/ /\ Fault("lost")
       /\ identities' \in {served, identities}
       /\ Defer(TRUE)
    \/ /\ Fault("refused")
       /\ UNCHANGED identities
       /\ Defer(FALSE)

\* The names of an enrolment grow older than the 24 hours it may take.
DayPasses ==
    /\ Fault("expired") /\ program.proof # Nothing /\ ~program.aged
    /\ program' = [program EXCEPT !.aged = TRUE]
    /\ UNCHANGED <<vault, identities, service, spool, boot, op, call, asked, choices>>

\* finish_enrollment
FinishStart ==
    /\ op.pc = "finish" /\ NoFault
    /\ IF Resumable(program)
       THEN op' = [NoOp EXCEPT !.pc = "post", !.saw = program] /\ UNCHANGED service
       ELSE Defer(FALSE)
    /\ UNCHANGED <<program, vault, identities, spool, boot, call, asked, choices>>

FinishPost ==
    /\ op.pc = "post"
    /\ LET n == op.saw.ref
           served == IF identities[n].life = "none"
                     THEN [identities EXCEPT ![n] = [life |-> "live", epoch |-> 1]]
                     ELSE identities
       IN Exchange(served, [op EXCEPT !.pc = "keep"])
    /\ UNCHANGED <<program, vault, spool, boot, call, asked, choices>>

\* Mutant: a failing secret store is ignored.
KeepIgnored ==
    /\ op.pc = "keep"
    /\ \/ NoFault /\ vault' = vault \union {Credential(op.saw.ref)}
       \/ Fault("storage") /\ UNCHANGED vault
    /\ op' = [op EXCEPT !.pc = "decide"]
    /\ UNCHANGED <<program, identities, service, spool, boot, call, asked, choices>>

\* secret_put_pair: the credential and the deletion code are stored together.
FinishKeep ==
    /\ op.pc = "keep"
    /\ \/ /\ NoFault
          /\ vault' = vault \union {Credential(op.saw.ref)}
          /\ op' = [op EXCEPT !.pc = "decide"]
          /\ UNCHANGED service
       \/ /\ Fault("storage") /\ Defer(TRUE) /\ UNCHANGED vault
    /\ UNCHANGED <<program, identities, spool, boot, call, asked, choices>>

FinishDecide ==
    /\ op.pc = "decide"
    /\ op' = [op EXCEPT !.pc = "admit", !.withdrawing = op.saw.control # NoControl \/ op.cancelled]
    /\ UNCHANGED <<program, vault, identities, service, spool, boot, call, asked, choices, mishaps>>

FinishSave ==
    /\ op.pc = "admit"
    /\ \/ /\ NoFault
          /\ program' = [program EXCEPT !.enabled = ~op.withdrawing, !.status = "enrolled",
                                        !.epoch = identities[op.saw.ref].epoch,
                                        !.proof = Nothing, !.aged = FALSE,
                                        !.control = IF @ = NoControl THEN @
                                                    ELSE [@ EXCEPT !.base = identities[op.saw.ref].epoch]]
          /\ vault' = vault \ {Proof(op.saw.proof)}
          /\ service' = [service EXCEPT !.initialized = FALSE, !.blocked = FALSE]
          /\ op' = NoOp
       \/ /\ Fault("storage") /\ Defer(TRUE) /\ UNCHANGED <<program, vault>>
    /\ UNCHANGED <<identities, spool, boot, call, asked, choices>>

----------------------------------------------------------------------------
(* initialize: run by the status, focus and read commands and after an     *)
(* enrolment, under its own lock.                                          *)

BootRead ==
    /\ boot.pc = "idle" /\ ~service.initialized /\ program.enabled /\ Enrolled(program)
    /\ boot' = [pc |-> "commit", credential |-> Credential(program.ref) \in vault, data |-> spool]
    /\ UNCHANGED <<program, vault, identities, service, spool, op, call, asked, choices, mishaps>>

BootCommit ==
    /\ boot.pc = "commit"
    /\ boot' = NoBoot
    /\ \/ /\ NoFault
          /\ spool' = boot.data
          /\ service' = [service EXCEPT !.initialized = TRUE, !.authorized = boot.credential, !.ok = TRUE,
                                        !.stopped = ~boot.credential, !.data = boot.data]
          /\ UNCHANGED <<op, call>>
       \/ /\ Fault("storage")
          /\ service' = [service EXCEPT !.ok = FALSE, !.stopped = TRUE]
          /\ CancelDelivery
          /\ UNCHANGED spool
    /\ UNCHANGED <<program, vault, identities, asked, choices>>

----------------------------------------------------------------------------
(* deliver: the background loop, once a second.                            *)

\* The loop's pass: the lock is free, nothing is blocked or in backoff.
Pass == op.pc = "idle" /\ ~service.blocked

DeliverEnrolment ==
    /\ Pass /\ program.control = NoControl
    /\ program.status = "pending" /\ program.proof # Nothing
    /\ op' = [NoOp EXCEPT !.pc = "finish"]
    /\ UNCHANGED <<program, vault, identities, service, spool, boot, call, asked, choices, mishaps>>

\* An enrolment without its credential is finished first: only its owner can erase it.
DeliverErasure ==
    /\ Pass /\ program.control.kind = "delete"
    /\ op' = CASE program.proof # Nothing /\ Credential(program.ref) \notin vault -> [NoOp EXCEPT !.pc = "finish"]
               [] program.receipt = "none" -> [NoOp EXCEPT !.pc = "erase", !.saw = program]
               [] OTHER -> [NoOp EXCEPT !.pc = "wipe", !.saw = program]
    /\ UNCHANGED <<program, vault, identities, service, spool, boot, call, asked, choices, mishaps>>

EraseRequest ==
    /\ op.pc = "erase"
    /\ IF Credential(op.saw.ref) \in vault
       THEN Exchange([identities EXCEPT ![op.saw.ref].life = "deleted"], [op EXCEPT !.pc = "receipt"])
       ELSE Defer(FALSE) /\ NoFault /\ UNCHANGED identities
    /\ UNCHANGED <<program, vault, spool, boot, call, asked, choices>>

\* The control is kept until the cleanup also succeeds.
EraseReceipt ==
    /\ op.pc = "receipt"
    /\ \/ /\ NoFault
          /\ vault' = vault \union {Receipt(op.saw.ref)}
          /\ program' = [program EXCEPT !.enabled = FALSE, !.status = "deleted", !.receipt = "pending"]
          /\ op' = [op EXCEPT !.pc = "wipe"]
          /\ UNCHANGED service
       \/ /\ Fault("storage")
          /\ vault' \in {vault, vault \union {Receipt(op.saw.ref)}}
          /\ Defer(TRUE) /\ UNCHANGED program
    /\ UNCHANGED <<identities, spool, boot, call, asked, choices>>

\* cleanup_deleted: the spool, then the secrets one by one, then the names of the secrets.
EraseWipe ==
    /\ op.pc = "wipe"
    /\ \/ /\ NoFault
          /\ spool' = FALSE
          /\ vault' = vault \ {Credential(op.saw.ref), Proof(op.saw.proof)}
          /\ service' = [service EXCEPT !.data = FALSE, !.ok = TRUE]
          /\ op' = [op EXCEPT !.pc = "forget"]
       \/ /\ Fault("storage")
          /\ vault' \in {vault, vault \ {Credential(op.saw.ref)}}
          /\ Defer(TRUE) /\ UNCHANGED spool
    /\ UNCHANGED <<program, identities, boot, call, asked, choices>>

EraseForget ==
    /\ op.pc = "forget"
    /\ \/ /\ NoFault
          /\ program' = [program EXCEPT !.ref = Nothing, !.proof = Nothing, !.aged = FALSE,
                                        !.control = NoControl]
          /\ service' = [service EXCEPT !.authorized = FALSE]
          /\ op' = NoOp
       \/ /\ Fault("storage") /\ Defer(TRUE) /\ UNCHANGED program
    /\ UNCHANGED <<vault, identities, spool, boot, call, asked, choices>>

\* poll_receipt
DeliverReceipt ==
    /\ Pass /\ program.control = NoControl /\ program.receipt = "pending"
    /\ \/ /\ NoFault /\ program' = [program EXCEPT !.receipt = "completed"]
       \/ /\ Fault("lost") /\ UNCHANGED program
    /\ UNCHANGED <<vault, identities, service, spool, boot, op, call, asked, choices>>

DeliverConsent ==
    /\ Pass /\ program.control.kind = "consent"
    /\ IF Credential(program.ref) \in vault
       THEN op' = [NoOp EXCEPT !.pc = "put", !.saw = program] /\ UNCHANGED service
       ELSE Defer(FALSE)
    /\ UNCHANGED <<program, vault, identities, spool, boot, call, asked, choices, mishaps>>

\* The server applies a request once: its epoch moves past the expected one.
ConsentPut ==
    /\ op.pc = "put"
    /\ LET n == op.saw.ref
           served == IF identities[n].epoch = op.saw.control.base
                     THEN [identities EXCEPT ![n].epoch = @ + 1] ELSE identities
       IN Exchange(served, [op EXCEPT !.pc = "journals"])
    /\ UNCHANGED <<program, vault, spool, boot, call, asked, choices>>

\* A kept choice moves the journals to the new epoch, any other empties the spool.
ConsentJournals ==
    /\ op.pc = "journals"
    /\ LET kept == op.saw.enabled /\ op.saw.control.enabled /\ ~op.saw.control.after
       IN \/ /\ NoFault
             /\ spool' = (service.data /\ kept)
             /\ service' = [service EXCEPT !.data = @ /\ kept, !.ok = TRUE]
             /\ op' = [op EXCEPT !.pc = "settle",
                                 !.withdrawing = op.saw.control.after \/ (op.cancelled /\ op.saw.control.enabled)]
             /\ UNCHANGED call
          \/ /\ Fault("storage")
             /\ service' = [service EXCEPT !.ok = FALSE, !.stopped = TRUE]
             /\ op' = NoOp /\ call' = Cancelled(call)
             /\ UNCHANGED spool
    /\ UNCHANGED <<program, vault, identities, boot, asked, choices>>

ConsentSettle ==
    /\ op.pc = "settle"
    /\ LET epoch == identities[op.saw.ref].epoch
           control == op.saw.control
       IN \/ /\ NoFault
             /\ program' = [program EXCEPT !.epoch = epoch, !.enabled = control.enabled /\ ~op.withdrawing,
                                           !.control = IF op.withdrawing THEN Consent(FALSE, epoch) ELSE NoControl]
             /\ op' = [op EXCEPT !.pc = "publish"]
             /\ UNCHANGED service
          \/ /\ Fault("storage") /\ Defer(TRUE) /\ UNCHANGED program
    /\ UNCHANGED <<vault, identities, spool, boot, call, asked, choices>>

ConsentPublish ==
    /\ op.pc = "publish"
    /\ service' = [service EXCEPT !.authorized = TRUE, !.initialized = TRUE,
                                  !.stopped = ~op.saw.control.enabled \/ op.withdrawing \/ ~service.ok]
    /\ op' = NoOp
    /\ UNCHANGED <<program, vault, identities, spool, boot, call, asked, choices, mishaps>>

\* read_notices, by the loop or on demand: the operator has paused or resumed collection.
Notices ==
    /\ May("paused") /\ Enrolled(program) /\ mishaps < MaxFaults /\ mishaps' = mishaps + 1
    /\ program' = [program EXCEPT !.paused = ~@]
    /\ IF program.paused THEN UNCHANGED <<op, call>> ELSE CancelDelivery
    /\ UNCHANGED <<vault, identities, service, spool, boot, asked, choices>>

\* begin_rental: a rental starts contributing.
Contribute ==
    /\ Permits(program) /\ program.control = NoControl /\ ~service.data
    /\ spool' = TRUE /\ service' = [service EXCEPT !.data = TRUE]
    /\ UNCHANGED <<program, vault, identities, boot, op, call, asked, choices, mishaps>>

----------------------------------------------------------------------------
(* participant: an upload by the loop, which holds the operation lock, or  *)
(* a read for the user, which does not.                                    *)

CallBegin(kind) ==
    /\ call.pc = "idle"
    /\ Permits(program) /\ program.control = NoControl
    /\ call' = [pc |-> "token", kind |-> kind, epoch |-> program.epoch, cancelled |-> FALSE]

UploadBegin ==
    /\ Pass /\ service.data
    /\ CallBegin("upload")
    /\ op' = [NoOp EXCEPT !.pc = "upload"]
    /\ UNCHANGED <<program, vault, identities, service, spool, boot, asked, choices, mishaps>>

LookupBegin ==
    /\ May("lookup") /\ service.initialized
    /\ CallBegin("lookup")
    /\ UNCHANGED <<program, vault, identities, service, spool, boot, op, asked, choices, mishaps>>

CallEnds ==
    /\ call' = NoCall
    /\ op' = IF call.kind = "upload" THEN NoOp ELSE op

\* After the keyring: the state is read again.
CallRecheck ==
    /\ call.pc = "token"
    /\ IF program.epoch = call.epoch /\ program.control = NoControl
             /\ program.enabled /\ Enrolled(program) /\ ~program.paused
       THEN call' = [call EXCEPT !.pc = "ready"] /\ UNCHANGED op
       ELSE CallEnds
    /\ UNCHANGED <<program, vault, identities, service, spool, boot, asked, choices, mishaps>>

\* The stop flag and the cancellation are looked at last, with no wait before the request leaves.
CallSend ==
    /\ call.pc = "ready"
    /\ IF ~call.cancelled /\ ~service.stopped /\ service.authorized /\ service.ok
       THEN call' = [call EXCEPT !.pc = "sent"] /\ UNCHANGED op
       ELSE CallEnds
    /\ UNCHANGED <<program, vault, identities, service, spool, boot, asked, choices, mishaps>>

CallAnswered ==
    /\ call.pc = "sent"
    /\ NoFault
    /\ CallEnds
    /\ service' = IF call.kind = "upload" /\ ~call.cancelled THEN [service EXCEPT !.data = FALSE] ELSE service
    /\ spool' = (spool /\ service'.data)
    /\ UNCHANGED <<program, vault, identities, boot, asked, choices>>

\* 401 or 403: capture stops and the program is switched off, if that can be saved.
CallRevoked ==
    /\ call.pc = "sent" /\ ~call.cancelled
    /\ Fault("revoked")
    /\ service' = [service EXCEPT !.stopped = TRUE, !.authorized = FALSE]
    /\ program' = [program EXCEPT !.enabled = FALSE]
    /\ call' = NoCall
    /\ op' = IF call.kind = "upload" THEN NoOp ELSE Cancelled(op)
    /\ UNCHANGED <<vault, identities, spool, boot, asked, choices>>

\* The desktop dies and starts again from what it had saved.
Crash ==
    /\ Fault("crash")
    /\ program' = Validated(program)
    /\ service' = Runtime
    /\ boot' = NoBoot /\ op' = NoOp /\ call' = NoCall
    /\ asked' = "none"
    /\ UNCHANGED <<vault, identities, spool, choices>>

----------------------------------------------------------------------------
UserCall ==
    \/ \E c \in {"scope", "withdraw"} : ConsentRefused(c) \/ ConsentPending(c) \/ ConsentSave(c)
    \/ EraseCall \/ EnrollCall

Enrolling == EnrollNames \/ FinishStart \/ FinishPost \/ FinishKeep \/ FinishDecide \/ FinishSave
Erasing == DeliverErasure \/ EraseRequest \/ EraseReceipt \/ EraseWipe \/ EraseForget \/ DeliverReceipt
Consenting == DeliverConsent \/ ConsentPut \/ ConsentJournals \/ ConsentSettle \/ ConsentPublish
Calling == UploadBegin \/ LookupBegin \/ CallRecheck \/ CallSend \/ CallAnswered \/ CallRevoked

Next ==
    /\ \/ PressEnroll \/ PressScope \/ PressWithdraw \/ PressErase
       \/ UserCall \/ Enrolling \/ Erasing \/ Consenting \/ Calling
       \/ DeliverEnrolment \/ BootRead \/ BootCommit \/ Notices \/ DayPasses \/ Contribute \/ Crash
    /\ UNCHANGED world

Spec == Init /\ [][Next]_vars

\* The loop and the tasks it has begun keep running; calls waiting for the lock get it.
FairSpec ==
    /\ Spec
    /\ WF_feedbackVars(UserCall)
    /\ WF_feedbackVars(Enrolling \/ DeliverEnrolment)
    /\ WF_feedbackVars(Erasing)
    /\ WF_feedbackVars(Consenting)
    /\ WF_feedbackVars(CallRecheck \/ CallSend \/ CallAnswered)
    /\ WF_feedbackVars(BootCommit)

----------------------------------------------------------------------------
\* No identity at the server is out of the user's reach: while it lives, this
\* installation holds either its credential and deletion code or the proof
\* with which the same enrolment can be repeated, under names that are saved
\* (enroll, finish_enrollment, cleanup_deleted), whatever crashes or is lost.
\* Only an enrolment left unfinished for a day may end with an identity whose
\* credential never arrived (pending_enrollment).
IdentityRecoverable ==
    \A n \in Enrolments :
        identities[n].life = "live" =>
            /\ program.ref = n
            /\ Credential(n) \in vault \/ (program.proof = n /\ (program.aged \/ Resumable(program)))

\* A step property: a contribution leaves only under the choice that stands when it leaves:
\* participation is on, no choice is waiting for the server, and the epoch is
\* the one the contribution was taken for (participant and the operation lock).
ContributionsConsented ==
    call.kind = "upload" /\ call.pc = "ready" /\ call'.pc = "sent" =>
        program.enabled /\ program.control = NoControl /\ call.epoch = program.epoch

\* An erasure the user has asked for reaches the server: no identity of this
\* installation stays alive, across crashes, lost answers and failed writes
\* (synchronize_control).  A refusal by the server or an enrolment left
\* unfinished for a day needs the user again.
ErasureAsked == ~May("refused") /\ ~May("expired") /\ program.control.kind = "delete"
Erased == \A n \in Enrolments : identities[n].life # "live"
============================================================================
