---------------------------- MODULE PaidProofs ----------------------------
(***************************************************************************)
(* The paid request is safe for every number of requests and keys, every   *)
(* number of crashes and key changes, and every sheltered environment: an  *)
(* unresolved request keeps its durable intent (IntentKept), and no other  *)
(* paid request is sent while there is one (NoSecondPaidRequest).          *)
(***************************************************************************)
EXTENDS PaidCreation, TLAPS

-----------------------------------------------------------------------------
\* The inductive invariant: types.

\* What a run has in hand at each of its steps.
RunTyped ==
    /\ run.pc \in {"recover", "match", "prepare", "intent", "send"} => run.key \in Keys
    /\ run.pc \in {"match", "check", "adopt", "send", "wait", "confirm", "refused"} =>
          run.attempt # NoAttempt
    /\ run.pc \in {"check", "adopt", "keep", "record", "complete", "existing", "loading", "loaded"} =>
          run.got \in Requests
SnapTyped == \A l \in {"run", "command"} : loads[l].pc # "idle" => loads[l].snap \in States
ReloadTyped == loads["run"].pc # "idle" => run.pc = "loading"
AckTyped == ack.pc # "idle" => ack.attempt # NoAttempt
Typed == TypeOK /\ RunTyped /\ SnapTyped /\ ReloadTyped /\ AckTyped

\* Typed, by the parts that different steps change.
Runs == [pc: {"idle", "recover", "match", "check", "adopt", "prepare", "intent", "send", "wait",
              "confirm", "keep", "record", "complete", "refused", "fallback",
              "existing", "loading", "loaded"},
         key: Keys \cup {Nil}, attempt: Attempts, got: Requests \cup {Nil}]
StoresT == disk \in States /\ mem \in States
RunT == run \in Runs /\ RunTyped
LoadsT ==
    /\ loads \in [{"run", "command"} -> [pc: {"idle", "read", "saved"}, snap: States \cup {Nil}]]
    /\ SnapTyped
AckT == ack \in [pc: {"idle", "list", "check", "clear"}, attempt: Attempts] /\ AckTyped
PollT == poll \in [pc: {"idle", "decide", "remove", "add"}, key: Keys \cup {Nil},
                   owned: SUBSET Requests, clear: BOOLEAN]
ProviderT ==
    /\ fate \in [Requests -> {"new", "drawn", "open", "rented", "refused", "lost"}]
    /\ owner \in [Requests -> Keys \cup {Nil}]
CountersT == crashes \in 0..MaxCrashes /\ switches \in 0..MaxSwitches

-----------------------------------------------------------------------------
\* The inductive invariant: intents, in a sheltered environment.

\* An intent p that agrees with the provider: what it confirms is its own
\* request, which was drawn, and it is the intent of every unresolved request.
Sound(p, f, o, b) ==
    /\ p.confirmed \in {Nil, p.req}
    /\ p # NoAttempt => f[p.req] # "new"
    /\ \A r \in Requests :
          f[r] \in {"open", "rented"} /\ r \notin b => p.req = r /\ p.key = o[r]

\* Reloads overlap no step of a run that touches the intent, and what they
\* carry is no staler than the file.
LoadInv ==
    /\ loads["command"].pc # "idle" => run.pc = "idle"
    /\ \A l \in {"run", "command"} :
          loads[l].pc # "idle" => Sound(loads[l].snap.pending, fate, owner, booked)

\* How the intent a run has in hand relates to the one in memory.
RunInv ==
    /\ run.pc = "intent" => mem.pending = NoAttempt
    /\ run.pc \in {"match", "check", "adopt"} =>
          /\ run.attempt.confirmed \in {Nil, run.attempt.req}
          /\ mem.pending = NoAttempt \/ mem.pending.req = run.attempt.req
    /\ run.pc \in {"check", "adopt"} => run.got = run.attempt.req
    /\ run.pc \in {"send", "wait", "confirm"} => mem.pending.req = run.attempt.req
    /\ run.pc = "send" =>
          /\ fate[run.attempt.req] = "drawn"
          /\ mem.pending.key = run.key
          /\ disk.pending = mem.pending
    /\ run.pc = "refused" => fate[run.attempt.req] = "refused"
    /\ run.pc = "complete" => run.got \in booked

\* An acknowledgement is about a request that was sent by an earlier run, and
\* once the listing was read that request is resolved.
AckInv ==
    ack.pc # "idle" =>
        /\ May("ack")
        /\ fate[ack.attempt.req] # "new"
        /\ Unresolved(ack.attempt.req) =>
              ack.pc = "list" /\ ack.attempt.key = owner[ack.attempt.req]
        /\ run.pc \in {"send", "wait", "confirm"} => ack.attempt.req # run.attempt.req

Decided == ~May("late") => \A r \in Requests : fate[r] # "open"

Safe ==
    /\ Sound(disk.pending, fate, owner, booked)
    /\ Sound(mem.pending, fate, owner, booked)
    /\ LoadInv
    /\ RunInv
    /\ AckInv
    /\ Decided

IInv == Typed /\ (Sheltered => Safe)

-----------------------------------------------------------------------------
\* Types.

\* What the state holds when the application starts has its types.
LEMMA TypedInit == Init => Typed
  BY CreationAssumption, SMTT(30)
     DEF Init, Typed, TypeOK, RunTyped, SnapTyped, ReloadTyped, AckTyped, States, Attempts, NoAttempt,
         IdleRun, IdleLoad, IdleAck, IdlePoll

\* The changes of the intent that update_state makes to a copy of the state.
LEMMA IntentUpdates ==
    ASSUME NEW s \in States, NEW n \in Requests \cup {Nil}, NEW a \in Attempts
    PROVE  /\ Confirmed(s, n) \in States
           /\ s.pending = NoAttempt => Confirmed(s, n) = s
           /\ s.pending # NoAttempt =>
                 /\ Confirmed(s, n).pending # NoAttempt
                 /\ Confirmed(s, n).pending.req = s.pending.req
                 /\ Confirmed(s, n).pending.key = s.pending.key
                 /\ Confirmed(s, n).pending.confirmed = n
           /\ ClearConfirmed(s, n) \in States
           /\ s.pending.confirmed = n => ClearConfirmed(s, n).pending = NoAttempt
           /\ s.pending.confirmed # n => ClearConfirmed(s, n) = s
           /\ ClearAttempt(s, a) \in States
           /\ s.pending.req = a.req => ClearAttempt(s, a).pending = NoAttempt
           /\ s.pending.req # a.req => ClearAttempt(s, a) = s
  <1>1. NoAttempt \in Attempts /\ [s EXCEPT !.pending = NoAttempt] \in States
        /\ [s EXCEPT !.pending = NoAttempt].pending = NoAttempt
    BY Zenon DEF States, Attempts
  <1>2. ASSUME s.pending # NoAttempt
        PROVE  /\ [s EXCEPT !.pending.confirmed = n] \in States
               /\ [s EXCEPT !.pending.confirmed = n].pending = [s.pending EXCEPT !.confirmed = n]
               /\ s.pending \in [req: Requests, key: Keys, confirmed: Requests \cup {Nil}]
    BY <1>2, SMTT(30) DEF States, Attempts, NoAttempt
  <1>3. ASSUME s.pending # NoAttempt
        PROVE  /\ [s.pending EXCEPT !.confirmed = n] # NoAttempt
               /\ [s.pending EXCEPT !.confirmed = n].req = s.pending.req
               /\ [s.pending EXCEPT !.confirmed = n].key = s.pending.key
               /\ [s.pending EXCEPT !.confirmed = n].confirmed = n
    BY <1>2, <1>3, CreationAssumption, SMTT(30) DEF NoAttempt
  <1> QED BY <1>1, <1>2, <1>3, Zenon DEF Confirmed, ClearConfirmed, ClearAttempt, Pending

\* The type invariant by its parts, in a state and in the next one.
LEMMA TypedParts ==
    /\ Typed <=> /\ world \in Worlds /\ booked \subseteq Requests
                 /\ StoresT /\ RunT /\ LoadsT /\ ReloadTyped /\ AckT /\ PollT
                 /\ ProviderT /\ CountersT
    /\ Typed' <=> /\ world' \in Worlds /\ (booked \subseteq Requests)'
                  /\ StoresT' /\ RunT' /\ LoadsT' /\ ReloadTyped' /\ AckT' /\ PollT'
                  /\ ProviderT' /\ CountersT'
  BY Zenon DEF Typed, TypeOK, Runs, StoresT, RunT, LoadsT, AckT, PollT, ProviderT, CountersT

\* A save, successful or not, of a state gives a file and a memory of the type.
LEMMA SaveTyped ==
    ASSUME StoresT, NEW n \in States, Saved(n) \/ NotSaved(n)
    PROVE  StoresT'
  BY Zenon DEF StoresT, Saved, NotSaved

\* A run that goes on or ends has its type.
LEMMA IdleRunTyped == run' = IdleRun => RunT'
  BY DEF RunT, Runs, RunTyped, IdleRun, Attempts

\* A run that moves on to the next of its points is still a run.
LEMMA RunAtTyped ==
    ASSUME RunT, NEW pc, RunAt(pc),
           \/ pc \in {"prepare", "intent"} /\ run.pc \in {"recover", "prepare"}
           \/ pc \in {"wait", "confirm", "refused", "fallback"} /\ run.pc \in {"send", "wait", "refused"}
           \/ pc = "adopt" /\ run.pc = "check"
           \/ pc \in {"record", "complete", "existing"} /\ run.pc \in {"adopt", "keep", "record"}
    PROVE  RunT'
  BY Zenon DEF RunT, Runs, RunTyped, RunAt

\* Listings name requests.
LEMMA ListingTyped ==
    ASSUME NEW k, NEW seen \in Listing(k)
    PROVE  seen \subseteq Requests
  BY Zenon DEF Listing, Rentals

\* The steps of a run keep the types.
LEMMA RunStepTyped ==
    ASSUME Typed, RunStep
    PROVE  StoresT' /\ RunT' /\ ReloadTyped' /\ ProviderT'
  <1> USE TypedParts
  <1> DEFINE Goal == StoresT' /\ RunT' /\ ProviderT'
  <1>a. ReloadTyped'
    <2>1. run.pc # "loading" /\ loads' = loads
      BY Zenon DEF RunStep, At, commands, RunStart, RecoverRead, RecoverList, RecoverCheck, RecoverAdopt, RunStops,
             PrepareCheck, PrepareSave, Send, Answer, accepted, KeepInstance,
             ensure_server_record, complete, rejected, Fallback, StartExisting, UseExisting
    <2> QED BY <2>1, Zenon DEF ReloadTyped
  <1>1. ASSUME RunStart PROVE Goal
    <2>1. run' \in Runs /\ run'.pc = "recover" /\ run'.key = mem.key
      BY <1>1, Zenon DEF RunStart, IdleRun, Runs, Attempts, StoresT, States
    <2> QED BY <1>1, <2>1, Zenon DEF RunStart, RunT, RunTyped, StoresT, ProviderT, provider, States
  <1>2. ASSUME RecoverRead PROVE Goal
    <2>1. StoresT' /\ ProviderT' /\ At("recover") /\ mem.pending \in Attempts
      BY <1>2, Zenon DEF RecoverRead, StoresT, ProviderT, provider, States
    <2>2. CASE run' = [run EXCEPT !.pc = "match", !.attempt = mem.pending] /\ Pending(mem)
      BY <2>1, <2>2, Zenon DEF RunT, Runs, RunTyped, At, Pending
    <2> QED BY <1>2, <2>1, <2>2, IdleRunTyped, RunAtTyped, Zenon DEF RecoverRead, RunEnds, At
  <1>3. ASSUME RecoverList PROVE Goal
    <2>1. StoresT' /\ ProviderT' /\ At("match")
      BY <1>3, Zenon DEF RecoverList, StoresT, ProviderT, provider
    <2>2. ASSUME NEW seen \in Listing(run.key), NEW r \in Matches(seen, run.attempt),
                 run' = [run EXCEPT !.pc = "check", !.got = r]
          PROVE  RunT'
      <3>1. r \in Requests
        BY ListingTyped, Zenon DEF Matches
      <3> QED BY <2>1, <2>2, <3>1, Zenon DEF RunT, Runs, RunTyped, At
    <2> QED BY <1>3, <2>1, <2>2, IdleRunTyped, Zenon DEF RecoverList, RunEnds
  <1>4. ASSUME RecoverAdopt PROVE Goal
    <2>1. ProviderT' /\ At("adopt") /\ run.got \in Requests
      BY <1>4, Zenon DEF RecoverAdopt, ProviderT, provider, At, RunT, RunTyped
    <2>2. Adopted(mem, run.got) \in States
      BY <2>1, Zenon DEF StoresT, States, Attempts, Adopted
    <2>3. StoresT'
      BY <1>4, <2>2, SaveTyped, Zenon DEF RecoverAdopt, SaveAndGo
    <2> QED BY <1>4, <2>1, <2>3, IdleRunTyped, RunAtTyped, Zenon DEF RecoverAdopt, SaveAndGo, RunEnds, At
  <1>5. ASSUME RunStops PROVE Goal
    BY <1>5, IdleRunTyped, Zenon DEF RunStops, RunEnds, StoresT, ProviderT, provider
  <1>6. ASSUME PrepareCheck PROVE Goal
    BY <1>6, IdleRunTyped, RunAtTyped, Zenon DEF PrepareCheck, RunEnds, StoresT, ProviderT, provider, At
  <1>7. ASSUME PrepareSave PROVE Goal
    <2>1. PICK r \in Requests :
             /\ fate[r] = "new"
             /\ fate' = [fate EXCEPT ![r] = "drawn"]
             /\ LET a == [req |-> r, key |-> run.key, confirmed |-> Nil]
                IN  \/ /\ Saved([mem EXCEPT !.pending = a])
                       /\ run' = [run EXCEPT !.pc = "send", !.attempt = a]
                    \/ NotSaved([mem EXCEPT !.pending = a]) /\ RunEnds
      BY <1>7, Zenon DEF PrepareSave
    <2> DEFINE a == [req |-> r, key |-> run.key, confirmed |-> Nil]
    <2>2. run.key \in Keys /\ ProviderT'
      BY <1>7, <2>1, Zenon DEF PrepareSave, At, RunT, RunTyped, ProviderT
    <2>3. a \in Attempts /\ a # NoAttempt
      BY <2>2, CreationAssumption, Zenon DEF Attempts, NoAttempt
    <2>4. [mem EXCEPT !.pending = a] \in States
      BY <2>3, Zenon DEF StoresT, States
    <2>5. StoresT'
      BY <2>1, <2>4, SaveTyped, Zenon
    <2>6. ASSUME run' = [run EXCEPT !.pc = "send", !.attempt = a] PROVE RunT'
      <3> HIDE DEF a
      <3> QED BY <2>2, <2>3, <2>6, Zenon DEF RunT, Runs, RunTyped
    <2> QED BY <2>1, <2>2, <2>5, <2>6, IdleRunTyped, Zenon DEF RunEnds
  <1>8. ASSUME Send PROVE Goal
    <2>1. ProviderT'
      BY <1>8, Zenon DEF Send, ProviderT, RunT, Runs
    <2> QED BY <1>8, <2>1, RunAtTyped, Zenon DEF Send, StoresT, At
  <1>9. ASSUME Answer PROVE Goal
    BY <1>9, IdleRunTyped, RunAtTyped, Zenon DEF Answer, RunEnds, StoresT, ProviderT, provider, At
  <1>10. ASSUME accepted PROVE Goal
    <2>1. At("confirm") /\ run.attempt.req \in Requests /\ run.attempt # NoAttempt
      BY <1>10, Zenon DEF accepted, At, RunT, Runs, RunTyped, Attempts
    <2>2. Confirmed(mem, run.attempt.req) \in States
      BY <2>1, IntentUpdates, Zenon DEF StoresT, RunT, Runs
    <2>3. StoresT' /\ ProviderT'
      BY <1>10, <2>2, SaveTyped, Zenon DEF accepted, ProviderT, provider
    <2>4. RunT'
      BY <1>10, <2>1, Zenon DEF accepted, RunT, Runs, RunTyped
    <2> QED BY <2>3, <2>4, Zenon
  <1>11. ASSUME KeepInstance PROVE Goal
    <2>1. At("keep") /\ [mem EXCEPT !.active = run.got] \in States
      BY <1>11, Zenon DEF KeepInstance, At, RunT, Runs, StoresT, States
    <2>2. StoresT' /\ ProviderT'
      BY <1>11, <2>1, SaveTyped, Zenon DEF KeepInstance, SaveAndGo, ProviderT, provider
    <2> QED BY <1>11, <2>1, <2>2, IdleRunTyped, RunAtTyped, Zenon DEF KeepInstance, SaveAndGo, RunEnds, At
  <1>12. ASSUME ensure_server_record PROVE Goal
    <2>1. At("record") /\ run.got \in Requests
      BY <1>12, Zenon DEF ensure_server_record, At, RunT, RunTyped
    <2>2. [mem EXCEPT !.servers = @ \cup {run.got}] \in States
      BY <2>1, Zenon DEF StoresT, States
    <2>3. StoresT' /\ ProviderT'
      BY <1>12, <2>2, SaveTyped, Zenon DEF ensure_server_record, SaveAndGo, ProviderT, provider
    <2> QED BY <1>12, <2>1, <2>3, IdleRunTyped, RunAtTyped, Zenon
            DEF ensure_server_record, SaveAndGo, RunEnds, At
  <1>13. ASSUME complete PROVE Goal
    <2>1. ClearConfirmed(mem, run.got) \in States
      BY IntentUpdates, Zenon DEF StoresT, RunT, Runs
    <2>2. StoresT' /\ ProviderT'
      BY <1>13, <2>1, SaveTyped, Zenon DEF complete, ProviderT, provider
    <2> QED BY <1>13, <2>2, IdleRunTyped, Zenon DEF complete, RunEnds
  <1>14. ASSUME rejected PROVE Goal
    <2>1. ClearAttempt(mem, run.attempt) \in States
      BY IntentUpdates, Zenon DEF StoresT, RunT, Runs
    <2>2. StoresT' /\ ProviderT'
      BY <1>14, <2>1, SaveTyped, Zenon DEF rejected, ProviderT, provider
    <2> QED BY <1>14, <2>2, RunAtTyped, Zenon DEF rejected, At
  <1>15. ASSUME Fallback PROVE Goal
    <2>1. ProviderT'
      BY <1>15, Zenon DEF Fallback, ProviderT, provider
    <2>2. CASE RunEnds /\ UNCHANGED <<disk, mem>>
      BY <2>1, <2>2, IdleRunTyped, Zenon DEF RunEnds, StoresT
    <2>3. ASSUME NEW seen \in Listing(run.key), NEW r \in seen,
                 \/ /\ Saved([mem EXCEPT !.active = r])
                    /\ run' = [run EXCEPT !.pc = "existing", !.got = r]
                 \/ NotSaved([mem EXCEPT !.active = r]) /\ RunEnds
          PROVE  StoresT' /\ RunT'
      <3>1. r \in Requests
        BY ListingTyped, Zenon
      <3>2. [mem EXCEPT !.active = r] \in States
        BY <3>1, Zenon DEF StoresT, States
      <3>3. ASSUME run' = [run EXCEPT !.pc = "existing", !.got = r] PROVE RunT'
        BY <3>1, <3>3, Zenon DEF RunT, Runs, RunTyped
      <3> QED BY <2>3, <3>2, <3>3, SaveTyped, IdleRunTyped, Zenon DEF RunEnds
    <2> QED BY <1>15, <2>1, <2>2, <2>3, Zenon DEF Fallback
  <1>16. ASSUME StartExisting PROVE Goal
    <2>1. PICK r \in mem.servers : run' = [IdleRun EXCEPT !.pc = "existing", !.got = r]
      BY <1>16, Zenon DEF StartExisting
    <2>2. r \in Requests
      BY <2>1, Zenon DEF StoresT, States
    <2>3. RunT'
      BY <2>1, <2>2, Zenon DEF IdleRun, Attempts, RunT, Runs, RunTyped
    <2> QED BY <1>16, <2>3, Zenon DEF StartExisting, StoresT, ProviderT, provider
  <1>17. ASSUME UseExisting PROVE Goal
    <2>1. run.got \in Requests
      BY <1>17, Zenon DEF UseExisting, At, RunT, RunTyped
    <2>2. [mem EXCEPT !.active = run.got, !.servers = @ \cup {run.got}] \in States
      BY <2>1, Zenon DEF StoresT, States
    <2>3. StoresT' /\ ProviderT'
      BY <1>17, <2>2, SaveTyped, Zenon DEF UseExisting, ProviderT, provider
    <2> QED BY <1>17, <2>3, IdleRunTyped, Zenon DEF UseExisting, RunEnds
  <1>18. ASSUME RecoverCheck PROVE Goal
    BY <1>18, IdleRunTyped, RunAtTyped, Zenon DEF RecoverCheck, RunEnds, StoresT, ProviderT, provider, At
  <1> QED
    BY <1>a, <1>1, <1>2, <1>3, <1>4, <1>5, <1>6, <1>7, <1>8, <1>9, <1>10, <1>11, <1>12, <1>13,
       <1>14, <1>15, <1>16, <1>17, <1>18, Zenon DEF RunStep

\* So do the steps of the commands.
LEMMA CommandStepTyped ==
    ASSUME Typed, CommandStep
    PROVE  StoresT' /\ RunT' /\ LoadsT' /\ ReloadTyped' /\ AckT' /\ PollT' /\ ProviderT'
  <1> USE TypedParts
  <1>1. DOMAIN loads = {"run", "command"}
    BY Zenon DEF LoadsT
  <1>2. ASSUME NEW l \in {"run", "command"}, LoadRead(l)
        PROVE  StoresT' /\ RunT' /\ LoadsT' /\ ReloadTyped'
    <2>1. StoresT'
      BY <1>2, Zenon DEF LoadRead, StoresT
    <2>2. RunT'
      BY <1>2, Zenon DEF LoadRead, At, RunT, Runs, RunTyped
    <2>3. LoadsT'
      BY <1>2, Zenon DEF LoadRead, StoresT, LoadsT, SnapTyped
    <2>4. ReloadTyped'
      BY <1>2, Zenon DEF LoadRead, LoadsT, ReloadTyped, RunT, Runs
    <2> QED BY <2>1, <2>2, <2>3, <2>4, Zenon
  <1>3. ASSUME NEW l \in {"run", "command"}, LoadSave(l)
        PROVE  StoresT' /\ RunT' /\ LoadsT' /\ ReloadTyped'
    <2>1. loads[l].snap \in States
      BY <1>3, Zenon DEF LoadSave, LoadsT, SnapTyped
    <2>2. StoresT'
      BY <1>3, <2>1, Zenon DEF LoadSave, StoresT
    <2>3. RunT'
      BY <1>3, IdleRunTyped, Zenon DEF LoadSave, RunT, RunTyped
    <2>4. LoadsT'
      BY <1>3, <2>1 DEF LoadSave, LoadsT, SnapTyped, IdleLoad
    <2>5. ReloadTyped'
      BY <1>3 DEF LoadSave, LoadsT, ReloadTyped, IdleLoad
    <2> QED BY <2>2, <2>3, <2>4, <2>5, Zenon
  <1>4. ASSUME NEW l \in {"run", "command"}, LoadInstall(l)
        PROVE  StoresT' /\ RunT' /\ LoadsT' /\ ReloadTyped'
    <2>1. StoresT'
      BY <1>4, Zenon DEF LoadInstall, LoadsT, SnapTyped, StoresT
    <2>2. LoadsT'
      BY <1>4, Zenon DEF LoadInstall, LoadsT, SnapTyped, IdleLoad
    <2>3. RunT'
      BY <1>4, Zenon DEF LoadInstall, RunT, Runs, RunTyped, ReloadTyped
    <2>4. ReloadTyped'
      BY <1>4, Zenon DEF LoadInstall, LoadsT, ReloadTyped, IdleLoad
    <2> QED BY <2>1, <2>2, <2>3, <2>4, Zenon
  <1>5. ASSUME NEW l \in {"run", "command"}, LoadRead(l) \/ LoadSave(l) \/ LoadInstall(l)
        PROVE  AckT' /\ PollT' /\ ProviderT'
    BY <1>5, Zenon DEF LoadRead, LoadSave, LoadInstall, AckT, AckTyped, PollT, ProviderT, provider
  <1> DEFINE Others == RunT' /\ LoadsT' /\ ReloadTyped' /\ ProviderT'
  <1>6. ASSUME UNCHANGED <<run, loads, provider>> PROVE Others
    BY <1>6, Zenon DEF RunT, RunTyped, LoadsT, SnapTyped, ReloadTyped, ProviderT, provider
  <1>7. IdleAck \in [pc: {"idle", "list", "check", "clear"}, attempt: Attempts] /\ IdleAck.pc = "idle"
    BY Zenon DEF IdleAck, Attempts
  <1>8. CASE AckCheck
    <2>1. AckT'
      BY <1>8, Zenon DEF AckCheck, AckT, AckTyped, Pending, StoresT, States
    <2> QED BY <1>6, <1>8, <2>1, Zenon DEF AckCheck, StoresT, PollT
  <1>9. CASE AckList
    <2>1. AckT'
      BY <1>7, <1>9, Zenon DEF AckList, AckT, AckTyped
    <2> QED BY <1>6, <1>9, <2>1, Zenon DEF AckList, StoresT, PollT
  <1>10. CASE AckClear
    <2>1. ClearAttempt(mem, ack.attempt) \in States
      BY IntentUpdates, Zenon DEF StoresT, AckT
    <2>2. AckT' /\ StoresT'
      BY <1>7, <1>10, <2>1, SaveTyped, Zenon DEF AckClear, AckT, AckTyped, StoresT
    <2> QED BY <1>6, <1>10, <2>2, Zenon DEF AckClear, PollT
  <1>11. IdlePoll \in [pc: {"idle", "decide", "remove", "add"}, key: Keys \cup {Nil},
                       owned: SUBSET Requests, clear: BOOLEAN]
    BY Zenon DEF IdlePoll
  <1>12. CASE PollList
    <2>1. PollT'
      BY <1>12, ListingTyped DEF PollList, PollT, StoresT, States
    <2> QED BY <1>6, <1>12, <2>1, Zenon DEF PollList, StoresT, AckT, AckTyped
  <1>13. CASE PollDecide
    <2>1. PollT'
      BY <1>11, <1>13, Zenon DEF PollDecide, PollT
    <2> QED BY <1>6, <1>13, <2>1, Zenon DEF PollDecide, StoresT, AckT, AckTyped
  <1>14. CASE PollRemove
    <2> DEFINE next == [mem EXCEPT !.servers = @ \cap poll.owned,
                                   !.active = IF poll.clear THEN Nil ELSE @]
    <2>1. next \in States
      BY Zenon DEF StoresT, States, PollT
    <2>2. StoresT'
      BY <1>14, <2>1, SaveTyped, Zenon DEF PollRemove
    <2>3. PollT'
      BY <1>11, <1>14, Zenon DEF PollRemove, PollT
    <2> QED BY <1>6, <1>14, <2>2, <2>3, Zenon DEF PollRemove, AckT, AckTyped
  <1>15. CASE PollAdd
    <2> DEFINE next == [mem EXCEPT !.servers = @ \cup poll.owned]
    <2>1. next \in States
      BY Zenon DEF StoresT, States, PollT
    <2>2. StoresT'
      BY <1>15, <2>1, SaveTyped, Zenon DEF PollAdd
    <2> QED BY <1>6, <1>11, <1>15, <2>2, Zenon DEF PollAdd, PollT, AckT, AckTyped
  <1>16. CASE SaveElsewhere
    <2>1. StoresT'
      BY <1>16, Zenon DEF SaveElsewhere, Saved, StoresT
    <2> QED BY <1>6, <1>16, <2>1, Zenon DEF SaveElsewhere, commands, PollT, AckT, AckTyped
  <1>17. CASE AckCheckKey
    <2>1. AckT'
      BY <1>7, <1>17, Zenon DEF AckCheckKey, AckT, AckTyped
    <2> QED BY <1>6, <1>17, <2>1, Zenon DEF AckCheckKey, StoresT, PollT
  <1> QED
    BY <1>1, <1>2, <1>3, <1>4, <1>5, <1>8, <1>9, <1>10, <1>12, <1>13, <1>14, <1>15, <1>16, <1>17,
       Zenon DEF CommandStep

\* Every step keeps the types.
LEMMA TypedStep == Typed /\ [Next]_vars => Typed'
  <1> SUFFICES ASSUME Typed, [Next]_vars PROVE Typed'
    BY Zenon
  <1> USE TypedParts
  <1>1. CASE UNCHANGED vars
    BY <1>1 DEF vars, commands, provider, counters, StoresT, RunT, RunTyped, LoadsT, SnapTyped,
                ReloadTyped, AckT, AckTyped, PollT, ProviderT, CountersT
  <1>2. CASE Next
    <2> DEFINE Rest == RunT' /\ LoadsT' /\ ReloadTyped' /\ AckT' /\ PollT'
    <2>1. ASSUME StoresT' PROVE world' \in Worlds /\ (booked \subseteq Requests)'
      BY <1>2, <2>1, Zenon DEF Next, StoresT, States
    <2>2. CASE RunStep /\ UNCHANGED counters
      <3>1. LoadsT' /\ AckT' /\ PollT' /\ CountersT'
        BY <2>2, Zenon DEF RunStep, counters, CountersT, commands, RunStart, RecoverRead, RecoverList,
             RecoverCheck, RecoverAdopt, RunStops, PrepareCheck, PrepareSave, Send, Answer, accepted,
             KeepInstance, ensure_server_record, complete, rejected, Fallback, StartExisting,
             UseExisting, LoadsT, SnapTyped, AckT, AckTyped, PollT
      <3>2. StoresT' /\ RunT' /\ ReloadTyped' /\ ProviderT'
        BY <2>2, RunStepTyped, Zenon
      <3> QED BY <2>1, <3>1, <3>2, Zenon
    <2>3. CASE CommandStep /\ UNCHANGED counters
      <3>1. CountersT'
        BY <2>3, Zenon DEF counters, CountersT
      <3> QED BY <2>1, <2>3, <3>1, CommandStepTyped, Zenon
    <2>4. ASSUME UNCHANGED <<run, commands>> PROVE Rest
      BY <2>4 DEF commands, RunT, RunTyped, LoadsT, SnapTyped, ReloadTyped, AckT, AckTyped, PollT
    <2>5. CASE DecideLate /\ UNCHANGED counters
      <3>1. StoresT' /\ ProviderT' /\ CountersT'
        BY <2>5, Zenon DEF DecideLate, StoresT, ProviderT, counters, CountersT
      <3> QED BY <2>1, <2>4, <2>5, <3>1, Zenon DEF DecideLate
    <2>6. CASE update_vast_api_key
      <3>1. StoresT'
        <4>1. PICK k \in Keys : Saved([mem EXCEPT !.key = k]) \/ NotSaved([mem EXCEPT !.key = k])
          BY <2>6, Zenon DEF update_vast_api_key
        <4>2. [mem EXCEPT !.key = k] \in States
          BY Zenon DEF StoresT, States
        <4> QED BY <4>1, <4>2, SaveTyped, Zenon
      <3>2. ProviderT' /\ CountersT'
        BY <2>6, CreationAssumption DEF update_vast_api_key, ProviderT, provider, CountersT
      <3> QED BY <2>1, <2>4, <2>6, <3>1, <3>2, Zenon DEF update_vast_api_key
    <2>7. CASE Restart
      <3>1. StoresT' /\ ProviderT' /\ CountersT'
        BY <2>7, CreationAssumption DEF Restart, StoresT, ProviderT, provider, CountersT
      <3>2. RunT'
        BY <2>7, IdleRunTyped, Zenon DEF Restart
      <3>3. LoadsT' /\ ReloadTyped'
        BY <2>7, Zenon DEF Restart, LoadsT, SnapTyped, ReloadTyped, IdleLoad
      <3>4. AckT' /\ PollT'
        BY <2>7, Zenon DEF Restart, AckT, AckTyped, PollT, IdleAck, IdlePoll, Attempts
      <3> QED BY <2>1, <3>1, <3>2, <3>3, <3>4, Zenon
    <2> QED BY <1>2, <2>2, <2>3, <2>5, <2>6, <2>7, Zenon DEF Next
  <1> QED BY <1>1, <1>2, Zenon

-----------------------------------------------------------------------------
\* Intents.

\* A request that gets a record needs its intent no longer.
LEMMA SoundGrows ==
    ASSUME NEW p, NEW f, NEW o, NEW b, NEW c, b \subseteq c, Sound(p, f, o, b)
    PROVE  Sound(p, f, o, c)
  BY Zenon DEF Sound

\* With every request resolved, no intent is needed.
LEMMA NoneSound ==
    ASSUME NEW f, NEW o, NEW b, \A r \in Requests : ~(f[r] \in {"open", "rented"} /\ r \notin b)
    PROVE  Sound(NoAttempt, f, o, b)
  BY Zenon DEF Sound, NoAttempt

\* Outside the sending of a request an acknowledgement stays valid.
LEMMA AckSafe ==
    ASSUME AckInv, UNCHANGED <<world, ack, fate, owner>>, booked \subseteq booked',
           run'.pc \in {"send", "wait", "confirm"} =>
              run.pc \in {"send", "wait", "confirm"} /\ run'.attempt = run.attempt
    PROVE  AckInv'
  BY Zenon DEF AckInv, Unresolved, May

\* A step that leaves the intents alone but for saving the one in memory.
LEMMA StoresSafe ==
    ASSUME Safe, UNCHANGED <<fate, owner>>, booked \subseteq booked',
           mem'.pending = mem.pending,
           disk'.pending = disk.pending \/ disk'.pending = mem.pending
    PROVE  /\ Sound(disk.pending, fate, owner, booked)'
           /\ Sound(mem.pending, fate, owner, booked)'
  BY SoundGrows, Zenon DEF Safe

\* A step that does not touch a reload keeps what the reload carries sound.
LEMMA LoadSafe ==
    ASSUME LoadInv, UNCHANGED <<fate, owner, loads>>, booked \subseteq booked',
           loads["command"].pc # "idle" => run'.pc = "idle"
    PROVE  LoadInv'
  BY SoundGrows, Zenon DEF LoadInv

\* A run that is neither idle nor loading has no reload beside it.
LEMMA NoLoad ==
    ASSUME Typed, Sheltered, Safe, run.pc # "idle" \/ NoReload
    PROVE  loads["command"].pc = "idle"
  BY Zenon DEF Sheltered, Safe, LoadInv, NoReload

\* What a step does to the file goes into the history.
LEMMA Quiet ==
    ASSUME Safe, UNCHANGED <<fate, owner, loads, ack, world>>,
           booked \subseteq booked',
           mem'.pending = mem.pending,
           disk'.pending = disk.pending \/ disk'.pending = mem.pending,
           loads["command"].pc # "idle" => run'.pc = "idle",
           run'.pc \in {"send", "wait", "confirm"} =>
              run.pc \in {"send", "wait", "confirm"} /\ run'.attempt = run.attempt,
           RunInv'
    PROVE  Safe'
  <1>1. AckInv'
    BY AckSafe, Zenon DEF Safe
  <1>2. LoadInv'
    BY LoadSafe, Zenon DEF Safe
  <1>3. Decided'
    BY Zenon DEF Safe, Decided, May
  <1> QED BY <1>1, <1>2, <1>3, StoresSafe, Zenon DEF Safe

\* The same for a save of a state with the intent of memory.
LEMMA QuietSave ==
    ASSUME NEW n, n.pending = mem.pending, Saved(n) \/ NotSaved(n)
    PROVE  /\ mem'.pending = mem.pending
           /\ disk'.pending = disk.pending \/ disk'.pending = mem.pending
  BY Zenon DEF Saved, NotSaved

\* The steps of a run that leave the intents alone.
LEMMA QuietRunStep ==
    ASSUME Typed, Sheltered, Safe, world' = world, booked' = booked \cup disk'.servers,
           \/ RunStart \/ RecoverRead \/ RecoverList \/ RecoverCheck \/ RunStops \/ PrepareCheck \/ Answer
           \/ KeepInstance \/ ensure_server_record \/ Fallback \/ StartExisting \/ UseExisting
    PROVE  Safe'
  <1> USE TypedParts
  <1>1. UNCHANGED <<fate, owner, loads, ack>> /\ booked \subseteq booked'
    BY Zenon DEF commands, provider, RunStart, RecoverRead, RecoverList, RecoverCheck, RunStops, PrepareCheck, Answer,
           KeepInstance, ensure_server_record, Fallback, StartExisting, UseExisting
  <1>2. loads["command"].pc = "idle"
    BY NoLoad, Zenon DEF At, RunStart, RecoverRead, RecoverList, RecoverCheck, RunStops, PrepareCheck, Answer,
           KeepInstance, ensure_server_record, Fallback, StartExisting, UseExisting
  <1> DEFINE Calm == /\ mem'.pending = mem.pending
                     /\ disk'.pending = disk.pending \/ disk'.pending = mem.pending
             Going == run'.pc \in {"send", "wait", "confirm"} =>
                         run.pc \in {"send", "wait", "confirm"} /\ run'.attempt = run.attempt
  <1>3. SUFFICES Calm /\ Going /\ RunInv'
    BY <1>1, <1>2, Quiet, Zenon
  <1>4. ASSUME run' = IdleRun PROVE Going /\ RunInv'
    BY <1>4, Zenon DEF IdleRun, RunInv
  <1>5. ASSUME NEW r, \/ run' = [run EXCEPT !.pc = "existing", !.got = r]
                      \/ run' = [IdleRun EXCEPT !.pc = "existing", !.got = r]
        PROVE  Going /\ RunInv'
    BY <1>5, Zenon DEF IdleRun, RunInv, RunT, Runs
  <1>6. CASE RunStart
    BY <1>6, Zenon DEF RunStart, RunInv, IdleRun
  <1>7. CASE RecoverRead
    <2>1. mem' = mem /\ disk' = disk /\ mem.pending.confirmed \in {Nil, mem.pending.req}
      BY <1>7, Zenon DEF RecoverRead, Safe, Sound
    <2>2. ASSUME RunAt("prepare") PROVE Going /\ RunInv'
      BY <2>2, Zenon DEF RunAt, RunInv, RunT, Runs
    <2>3. ASSUME run' = [run EXCEPT !.pc = "match", !.attempt = mem.pending]
          PROVE  Going /\ RunInv'
      BY <2>1, <2>3, Zenon DEF RunInv, RunT, Runs
    <2> QED BY <1>4, <1>7, <2>1, <2>2, <2>3, Zenon DEF RecoverRead, RunEnds
  <1>8. CASE RecoverList
    <2>1. ASSUME NEW seen \in Listing(run.key), NEW r \in Matches(seen, run.attempt),
                 run' = [run EXCEPT !.pc = "check", !.got = r]
          PROVE  Going /\ RunInv'
      <3>1. r \in Requests /\ r \in {run.attempt.confirmed, run.attempt.req}
        BY ListingTyped, Zenon DEF Matches
      <3>2. run.attempt.confirmed \in {Nil, run.attempt.req}
        BY <1>8, Zenon DEF RecoverList, At, Safe, RunInv
      <3>3. r = run.attempt.req
        BY <3>1, <3>2, CreationAssumption, Zenon
      <3> QED BY <1>8, <2>1, <3>3, Zenon DEF RecoverList, At, Safe, RunInv, RunT, Runs
    <2> QED BY <1>4, <1>8, <2>1, Zenon DEF RecoverList, RunEnds
  <1>9. CASE RunStops
    BY <1>4, <1>9, Zenon DEF RunStops, RunEnds
  <1>10. CASE PrepareCheck
    <2>1. ASSUME RunAt("intent"), ~Pending(mem) PROVE Going /\ RunInv'
      BY <1>10, <2>1, Zenon DEF PrepareCheck, RunAt, RunInv, RunT, Runs, Pending
    <2> QED BY <1>4, <1>10, <2>1, Zenon DEF PrepareCheck, RunEnds
  <1>11. CASE Answer
    <2>1. ASSUME RunAt("confirm") PROVE Going /\ RunInv'
      BY <1>11, <2>1, Zenon DEF Answer, At, RunAt, Safe, RunInv, RunT, Runs
    <2>2. ASSUME RunAt("refused"), fate[run.attempt.req] = "refused" PROVE Going /\ RunInv'
      BY <1>11, <2>2, Zenon DEF Answer, provider, At, RunAt, Safe, RunInv, RunT, Runs
    <2> QED BY <1>4, <1>11, <2>1, <2>2, Zenon DEF Answer, RunEnds
  <1>12. CASE KeepInstance
    <2>1. [mem EXCEPT !.active = run.got].pending = mem.pending
      BY Zenon DEF StoresT, States
    <2>2. ASSUME RunAt("record") PROVE Going /\ RunInv'
      BY <2>2, Zenon DEF RunAt, RunInv, RunT, Runs
    <2> QED BY <1>4, <1>12, <2>1, <2>2, QuietSave, Zenon DEF KeepInstance, SaveAndGo, RunEnds
  <1>13. CASE ensure_server_record
    <2> DEFINE n == [mem EXCEPT !.servers = @ \cup {run.got}]
    <2>1. n.pending = mem.pending /\ run.got \in n.servers
      BY Zenon DEF StoresT, States
    <2>2. ASSUME RunAt("complete"), Saved(n) PROVE Going /\ RunInv'
      <3>1. run'.got \in booked'
        BY <2>1, <2>2, Zenon DEF Saved, RunAt, RunT, Runs
      <3> QED BY <2>2, <3>1, Zenon DEF RunAt, RunInv, RunT, Runs
    <2> QED BY <1>4, <1>13, <2>1, <2>2, QuietSave, Zenon DEF ensure_server_record, SaveAndGo, RunEnds
  <1>14. CASE Fallback
    <2>1. ASSUME NEW r PROVE [mem EXCEPT !.active = r].pending = mem.pending
      BY Zenon DEF StoresT, States
    <2> QED BY <1>4, <1>5, <1>14, <2>1, QuietSave, Zenon DEF Fallback, RunEnds
  <1>15. CASE StartExisting
    BY <1>5, <1>15, Zenon DEF StartExisting
  <1>16. CASE UseExisting
    <2>1. [mem EXCEPT !.active = run.got, !.servers = @ \cup {run.got}].pending = mem.pending
      BY Zenon DEF StoresT, States
    <2> QED BY <1>4, <1>16, <2>1, QuietSave, Zenon DEF UseExisting, RunEnds
  <1>17. CASE RecoverCheck
    <2>1. ASSUME RunAt("adopt") PROVE Going /\ RunInv'
      BY <1>17, <2>1, Zenon DEF RecoverCheck, At, RunAt, Safe, RunInv, RunT, Runs
    <2> QED BY <1>4, <1>17, <2>1, Zenon DEF RecoverCheck, RunEnds
  <1> QED BY <1>6, <1>7, <1>8, <1>9, <1>10, <1>11, <1>12, <1>13, <1>14, <1>15, <1>16, <1>17, Zenon

\* The request a run sends, or has in hand after sending, is drawn.
LEMMA AttemptDrawn ==
    ASSUME Typed, Safe, run.pc \in {"send", "wait", "confirm"}
    PROVE  /\ run.attempt.req \in Requests
           /\ mem.pending # NoAttempt
           /\ mem.pending.req = run.attempt.req
  BY TypedParts, CreationAssumption, SMTT(30)
     DEF Safe, RunInv, RunT, Runs, RunTyped, Attempts, NoAttempt, StoresT, States

\* An intent is taken out of the file and memory only when its request is
\* resolved.
LEMMA ClearedSafe ==
    ASSUME Typed, Safe, UNCHANGED <<fate, owner>>, booked \subseteq booked', NEW n,
           Saved(n) \/ NotSaved(n),
           \/ n = mem
           \/ /\ n.pending = NoAttempt
              /\ \A r \in Requests : Unresolved(r) /\ mem.pending.req = r =>
                    (disk' = n => r \in booked')
    PROVE  /\ Sound(disk.pending, fate, owner, booked)'
           /\ Sound(mem.pending, fate, owner, booked)'
  <1>1. CASE n = mem
    <2>1. mem'.pending = mem.pending
      BY <1>1, Zenon DEF Saved, NotSaved
    <2>2. disk'.pending = disk.pending \/ disk'.pending = mem.pending
      BY <1>1, Zenon DEF Saved, NotSaved
    <2> QED BY <2>1, <2>2, StoresSafe, Zenon
  <1>2. CASE n # mem
    <2>1. ASSUME disk' = n
          PROVE  \A r \in Requests : ~(fate'[r] \in {"open", "rented"} /\ r \notin booked')
      BY <1>2, <2>1, Zenon DEF Safe, Sound, Unresolved
    <2>2. ASSUME disk' = n
          PROVE  \A p : p = NoAttempt \/ p = mem.pending => Sound(p, fate', owner', booked')
      BY <2>1, <2>2, NoneSound, SoundGrows DEF Safe
    <2>3. ASSUME disk' = disk, mem' = mem
          PROVE  Sound(disk.pending, fate, owner, booked)' /\ Sound(mem.pending, fate, owner, booked)'
      BY <2>3, SoundGrows, Zenon DEF Safe
    <2> QED BY <1>2, <2>2, <2>3, Zenon DEF Saved, NotSaved
  <1> QED BY <1>1, <1>2, Zenon

\* The steps of a run that change the intent without sending.
LEMMA IntentRunStep ==
    ASSUME Typed, Sheltered, Safe, world' = world, booked' = booked \cup disk'.servers,
           RecoverAdopt \/ accepted \/ complete \/ rejected
    PROVE  Safe'
  <1> USE TypedParts
  <1>1. UNCHANGED <<fate, owner, loads, ack>> /\ booked \subseteq booked'
    BY Zenon DEF commands, provider, RecoverAdopt, accepted, complete, rejected
  <1>2. loads["command"].pc = "idle"
    BY NoLoad, Zenon DEF At, RecoverAdopt, accepted, complete, rejected
  <1>3. run'.pc \notin {"intent", "match", "check", "adopt", "send", "wait", "confirm", "refused", "complete"}
    <2>1. \/ run' = IdleRun
          \/ run' = [run EXCEPT !.pc = "existing"]
          \/ run' = [run EXCEPT !.pc = "keep", !.got = run.attempt.req]
          \/ run' = [run EXCEPT !.pc = "fallback"]
      BY Zenon DEF RecoverAdopt, accepted, complete, rejected, SaveAndGo, RunAt, RunEnds
    <2>2. CASE run' = IdleRun
      BY <2>2, Zenon DEF IdleRun
    <2>3. CASE run' = [run EXCEPT !.pc = "existing"]
      BY <2>3, Zenon DEF RunT, Runs
    <2>4. CASE run' = [run EXCEPT !.pc = "keep", !.got = run.attempt.req]
      BY <2>4, Zenon DEF RunT, Runs
    <2>5. CASE run' = [run EXCEPT !.pc = "fallback"]
      BY <2>5, Zenon DEF RunT, Runs
    <2> QED BY <2>1, <2>2, <2>3, <2>4, <2>5, Zenon
  <1>4. RunInv' /\ AckInv' /\ LoadInv' /\ Decided'
    <2>1. RunInv'
      BY <1>3, Zenon DEF RunInv
    <2>2. AckInv'
      BY <1>1, <1>3, AckSafe, Zenon DEF Safe
    <2>3. LoadInv'
      BY <1>1, <1>2, LoadSafe, Zenon DEF Safe
    <2>4. Decided'
      BY <1>1, Zenon DEF Safe, Decided, May
    <2> QED BY <2>1, <2>2, <2>3, <2>4, Zenon
  <1>5. SUFFICES /\ Sound(disk.pending, fate, owner, booked)'
                 /\ Sound(mem.pending, fate, owner, booked)'
    BY <1>4, Zenon DEF Safe
  <1>6. CASE RecoverAdopt
    <2> DEFINE n == Adopted(mem, run.got)
    <2>1. n.pending = NoAttempt /\ run.got \in n.servers
      BY Zenon DEF StoresT, States, Adopted
    <2>2. ASSUME NEW r \in Requests, mem.pending.req = r, disk' = n
          PROVE  r \in booked'
      <3>1. mem.pending # NoAttempt
        BY <2>2, CreationAssumption DEF NoAttempt
      <3>2. r = run.got
        BY <1>6, <2>2, <3>1, Zenon DEF RecoverAdopt, At, Safe, RunInv
      <3> QED BY <2>1, <2>2, <3>2, Zenon
    <2>3. Saved(n) \/ NotSaved(n)
      BY <1>6, Zenon DEF RecoverAdopt, SaveAndGo
    <2> HIDE DEF n
    <2> QED BY <1>1, <2>1, <2>2, <2>3, ClearedSafe, Zenon
  <1>7. CASE accepted
    <2> DEFINE n == Confirmed(mem, run.attempt.req)
    <2>1. /\ run.attempt.req \in Requests
          /\ mem.pending # NoAttempt
          /\ mem.pending.req = run.attempt.req
      BY <1>7, AttemptDrawn, Zenon DEF accepted, At
    <2>2. /\ n.pending # NoAttempt
          /\ n.pending.req = mem.pending.req
          /\ n.pending.key = mem.pending.key
          /\ n.pending.confirmed = run.attempt.req
      BY <2>1, IntentUpdates, Zenon DEF StoresT, RunT, Runs
    <2> HIDE DEF n
    <2>3. Sound(n.pending, fate, owner, booked)
      BY <2>1, <2>2, Zenon DEF Safe, Sound
    <2>4. Saved(n) \/ NotSaved(n)
      BY <1>7, Zenon DEF accepted, n
    <2> QED BY <1>1, <2>3, <2>4, SoundGrows, Zenon DEF Saved, NotSaved, Safe
  <1>8. CASE complete
    <2> DEFINE n == ClearConfirmed(mem, run.got)
    <2>1. run.got \in booked /\ run.got \in Requests
      BY <1>8, Zenon DEF complete, At, Safe, RunInv, RunT, RunTyped
    <2>2. n = mem \/ (n.pending = NoAttempt /\ mem.pending.confirmed = run.got)
      BY IntentUpdates, Zenon DEF StoresT, RunT, Runs
    <2>3. mem.pending.confirmed = run.got => mem.pending.req \in booked
      BY <2>1, CreationAssumption, Zenon DEF Safe, Sound
    <2>4. Saved(n) \/ NotSaved(n)
      BY <1>8, Zenon DEF complete
    <2> HIDE DEF n
    <2> QED BY <1>1, <2>2, <2>3, <2>4, ClearedSafe, Zenon DEF Unresolved
  <1>9. CASE rejected
    <2> DEFINE n == ClearAttempt(mem, run.attempt)
    <2>1. fate[run.attempt.req] = "refused"
      BY <1>9, Zenon DEF rejected, At, Safe, RunInv
    <2>2. n = mem \/ (n.pending = NoAttempt /\ mem.pending.req = run.attempt.req)
      BY IntentUpdates DEF StoresT, RunT, Runs
    <2>3. Saved(n) \/ NotSaved(n)
      BY <1>9, Zenon DEF rejected
    <2> HIDE DEF n
    <2> QED BY <1>1, <2>1, <2>2, <2>3, ClearedSafe, Zenon DEF Unresolved
  <1> QED BY <1>6, <1>7, <1>8, <1>9, Zenon

\* The intent is saved before the request is sent.
LEMMA PrepareSaveSafe ==
    ASSUME Typed, Sheltered, Safe, world' = world, booked' = booked \cup disk'.servers, PrepareSave
    PROVE  Safe'
  <1> USE TypedParts
  <1>1. PICK r \in Requests :
           /\ fate[r] = "new"
           /\ fate' = [fate EXCEPT ![r] = "drawn"]
           /\ LET a == [req |-> r, key |-> run.key, confirmed |-> Nil]
              IN  \/ /\ Saved([mem EXCEPT !.pending = a])
                     /\ run' = [run EXCEPT !.pc = "send", !.attempt = a]
                  \/ NotSaved([mem EXCEPT !.pending = a]) /\ RunEnds
    BY Zenon DEF PrepareSave
  <1> DEFINE a == [req |-> r, key |-> run.key, confirmed |-> Nil]
             n == [mem EXCEPT !.pending = a]
  <1>2. n.pending = a /\ a.req = r /\ a.key = run.key /\ a.confirmed = Nil
    BY Zenon DEF StoresT, States
  <1>3. mem.pending = NoAttempt /\ loads["command"].pc = "idle"
    BY NoLoad, Zenon DEF PrepareSave, At, Safe, RunInv
  <1>4. \A q \in Requests : ~(fate[q] \in {"open", "rented"} /\ q \notin booked)
    BY <1>3, CreationAssumption DEF Safe, Sound, NoAttempt
  <1>5. \A q \in Requests : ~(fate'[q] \in {"open", "rented"} /\ q \notin booked')
    BY <1>1, <1>4, Zenon DEF ProviderT
  <1> HIDE DEF a, n
  <1>6. ASSUME NEW p, Sound(p, fate, owner, booked), p = NoAttempt \/ p.req \in Requests
        PROVE  Sound(p, fate', owner', booked')
    BY <1>1, <1>5, <1>6, Zenon DEF Sound, ProviderT
  <1>7. Sound(a, fate', owner', booked')
    BY <1>1, <1>2, <1>5, Zenon DEF Sound, ProviderT
  <1>8. \A p \in Attempts : p = NoAttempt \/ p.req \in Requests
    BY Zenon DEF Attempts
  <1>9. Sound(disk.pending, fate, owner, booked)' /\ Sound(mem.pending, fate, owner, booked)'
    BY <1>1, <1>2, <1>6, <1>7, <1>8, Zenon DEF Saved, NotSaved, Safe, StoresT, States, a, n
  <1>10. LoadInv' /\ Decided'
    <2>1. loads' = loads /\ loads["run"].pc = "idle"
      BY Zenon DEF PrepareSave, commands, At, ReloadTyped
    <2> QED BY <1>1, <1>3, <2>1, Zenon DEF LoadInv, Decided, May, ProviderT, Safe
  <1>11. CASE Saved(n) /\ run' = [run EXCEPT !.pc = "send", !.attempt = a]
    <2>1. run'.pc = "send" /\ run'.attempt = a /\ run'.key = run.key
      BY <1>11, Zenon DEF RunT, Runs
    <2>2. disk' = n /\ mem' = n /\ fate'[r] = "drawn"
      BY <1>1, <1>11, Zenon DEF Saved, ProviderT
    <2>3. RunInv'
      BY <1>2, <2>1, <2>2, Zenon DEF RunInv
    <2>4. AckInv'
      BY <1>1, <1>2, <1>5, <2>1 DEF PrepareSave, commands, AckInv, Unresolved, May, Safe, AckT, AckTyped,
         Attempts, ProviderT
    <2> QED BY <1>9, <1>10, <2>3, <2>4, Zenon DEF Safe
  <1>12. CASE NotSaved(n) /\ RunEnds
    <2>1. RunInv'
      BY <1>12, Zenon DEF RunEnds, IdleRun, RunInv
    <2>2. AckInv'
      BY <1>1, <1>5, <1>12 DEF PrepareSave, commands, AckInv, Unresolved, May, Safe, AckT, AckTyped,
         Attempts, ProviderT, RunEnds, IdleRun
    <2> QED BY <1>9, <1>10, <2>1, <2>2, Zenon DEF Safe
  <1> QED BY <1>1, <1>11, <1>12, Zenon DEF a, n

\* The paid request: its intent is in the file and in memory.
LEMMA SendSafe ==
    ASSUME Typed, Sheltered, Safe, world' = world, booked' = booked \cup disk'.servers, Send
    PROVE  Safe'
  <1> USE TypedParts
  <1> DEFINE r == run.attempt.req
  <1>1. /\ r \in Requests
        /\ fate[r] = "drawn"
        /\ mem.pending # NoAttempt
        /\ mem.pending.req = r /\ mem.pending.key = run.key
        /\ disk.pending = mem.pending
        /\ run.key \in Keys
    BY AttemptDrawn, Zenon DEF Send, At, Safe, RunInv, RunT, RunTyped
  <1>2. UNCHANGED <<disk, mem, loads, ack>>
    BY Zenon DEF Send, commands
  <1>3. loads["command"].pc = "idle" /\ loads["run"].pc = "idle"
    BY NoLoad, Zenon DEF Send, At, ReloadTyped
  <1>4. PICK f \in {"rented", "refused", "lost", "open"} :
           fate' = [fate EXCEPT ![r] = f] /\ (f = "open" => May("late"))
    BY Zenon DEF Send
  <1>5. owner' = [owner EXCEPT ![r] = run.key]
    BY Zenon DEF Send
  <1> HIDE DEF r
  <1>6. \A q \in Requests : q # r => fate'[q] = fate[q] /\ owner'[q] = owner[q]
    BY <1>4, <1>5, Zenon DEF ProviderT
  <1>7. fate'[r] = f /\ owner'[r] = run.key
    BY <1>1, <1>4, <1>5, Zenon DEF ProviderT
  <1>8. Sound(mem.pending, fate, owner, booked)'
    <2>1. booked \subseteq booked' /\ Sound(mem.pending, fate, owner, booked)
      BY Zenon DEF Safe
    <2>2. \A q \in Requests : fate'[q] \in {"open", "rented"} /\ q \notin booked' => q = r
      BY <1>1, <1>6, <2>1, Zenon DEF Sound
    <2> QED BY <1>1, <1>2, <1>7, <2>1, <2>2, Zenon DEF Sound
  <1>9. RunInv'
    <2>1. run'.pc = "wait" /\ run'.attempt = run.attempt
      BY Zenon DEF Send, RunAt, RunT, Runs
    <2> QED BY <1>1, <1>2, <2>1, Zenon DEF RunInv, r
  <1>10. AckInv'
    <2>1. ASSUME ack.pc # "idle" PROVE ack.attempt.req # r /\ ack.attempt.req \in Requests
      BY <2>1, Zenon DEF Send, At, Safe, AckInv, r, AckT, AckTyped, Attempts
    <2>2. run'.attempt = run.attempt
      BY Zenon DEF Send, RunAt, RunT, Runs
    <2> QED BY <1>2, <1>6, <2>1, <2>2, Zenon DEF AckInv, Unresolved, May, Safe, r
  <1>11. LoadInv' /\ Decided'
    BY <1>2, <1>3, <1>4, <1>6, <1>7, Zenon DEF LoadInv, Decided, May, Safe
  <1> QED BY <1>1, <1>2, <1>8, <1>9, <1>10, <1>11, Zenon DEF Safe

\* A late decision leaves the request unresolved, or refuses it.
LEMMA DecideLateSafe ==
    ASSUME Typed, Sheltered, Safe, world' = world, booked' = booked \cup disk'.servers, DecideLate
    PROVE  Safe'
  <1> USE TypedParts
  <1>1. PICK r \in Requests, f \in {"rented", "refused"} :
           fate[r] = "open" /\ fate' = [fate EXCEPT ![r] = f]
    BY Zenon DEF DecideLate
  <1>2. UNCHANGED <<disk, mem, run, loads, ack, owner>> /\ booked \subseteq booked'
    BY Zenon DEF DecideLate, commands
  <1>3. \A q \in Requests :
           /\ fate'[q] # "new" <=> fate[q] # "new"
           /\ fate'[q] \in {"open", "rented"} => fate[q] \in {"open", "rented"}
           /\ fate[q] \in {"drawn", "refused"} => fate'[q] = fate[q]
           /\ fate[q] # "open" => fate'[q] # "open"
    BY <1>1, Zenon DEF ProviderT
  <1>4. ASSUME NEW p \in Attempts, Sound(p, fate, owner, booked)
        PROVE  Sound(p, fate', owner', booked')
    <2>1. p = NoAttempt \/ p.req \in Requests
      BY Zenon DEF Attempts
    <2> QED BY <1>2, <1>3, <1>4, <2>1, Zenon DEF Sound
  <1>5. Sound(disk.pending, fate, owner, booked)' /\ Sound(mem.pending, fate, owner, booked)'
    BY <1>2, <1>4, Zenon DEF Safe, StoresT, States
  <1>6. LoadInv'
    BY <1>2, <1>4, Zenon DEF Safe, LoadInv, LoadsT, SnapTyped, States
  <1>7. RunInv'
    <2>1. run.pc \in {"send", "refused"} => run.attempt.req \in Requests
      BY Zenon DEF RunT, Runs, RunTyped, Attempts
    <2> QED BY <1>2, <1>3, <2>1, Zenon DEF Safe, RunInv
  <1>8. AckInv'
    <2>1. ack.pc # "idle" => ack.attempt.req \in Requests
      BY Zenon DEF AckT, AckTyped, Attempts
    <2> QED BY <1>2, <1>3, <2>1, Zenon DEF Safe, AckInv, Unresolved, May
  <1>9. Decided'
    BY <1>3, Zenon DEF Safe, Decided, May
  <1> QED BY <1>5, <1>6, <1>7, <1>8, <1>9, Zenon DEF Safe

\* Reloading: what is read stays sound until it is installed.
LEMMA ReloadSafe ==
    ASSUME Typed, Sheltered, Safe, world' = world, booked' = booked \cup disk'.servers,
           NEW l \in {"run", "command"}, LoadRead(l) \/ LoadSave(l) \/ LoadInstall(l)
    PROVE  Safe'
  <1> USE TypedParts
  <1>1. UNCHANGED <<fate, owner, ack>> /\ booked \subseteq booked'
    BY Zenon DEF LoadRead, LoadSave, LoadInstall, provider
  <1>2. run.pc \in {"idle", "existing", "loading"}
        /\ run'.pc \in {"idle", "existing", "loading", "loaded"}
    <2>1. CASE LoadRead(l)
      BY <2>1, Zenon DEF LoadRead, Sheltered, At, RunT, Runs
    <2>2. CASE LoadSave(l) \/ LoadInstall(l)
      <3>1. run.pc \in {"idle", "loading"}
        BY <2>2, Zenon DEF LoadSave, LoadInstall, ReloadTyped, Safe, LoadInv
      <3> QED BY <2>2, <3>1 DEF LoadSave, LoadInstall, IdleRun, RunT, Runs
    <2> QED BY <2>1, <2>2, Zenon
  <1>3. RunInv' /\ Decided'
    BY <1>1, <1>2, Zenon DEF RunInv, Decided, May, Safe
  <1>4. AckInv'
    BY <1>1, <1>2, AckSafe, Zenon DEF Safe
  <1>5. LoadRead(l) \/ Sound(loads[l].snap.pending, fate, owner, booked)
    BY Zenon DEF LoadSave, LoadInstall, Safe, LoadInv
  <1>6. Sound(disk.pending, fate, owner, booked)'
    BY <1>1, <1>5, SoundGrows, Zenon DEF LoadRead, LoadSave, LoadInstall, Safe
  <1>7. Sound(mem.pending, fate, owner, booked)'
    BY <1>1, <1>5, SoundGrows, Zenon DEF LoadRead, LoadSave, LoadInstall, Safe
  <1>8. \A k \in {"run", "command"} :
           loads'[k].pc # "idle" => Sound(loads'[k].snap.pending, fate', owner', booked')
    <2> TAKE k \in {"run", "command"}
    <2> HAVE loads'[k].pc # "idle"
    <2>1. CASE k # l
      <3>1. loads'[k] = loads[k]
        BY <2>1, Zenon DEF LoadRead, LoadSave, LoadInstall, LoadsT
      <3> QED BY <1>1, <3>1, SoundGrows, Zenon DEF Safe, LoadInv
    <2>2. CASE k = l
      <3>1. CASE LoadRead(l)
        <4>1. loads'[k].snap = disk
          BY <2>2, <3>1, Zenon DEF LoadRead, LoadsT
        <4> QED BY <1>1, <4>1, SoundGrows, Zenon DEF Safe
      <3>2. CASE LoadSave(l)
        <4>1. loads'[k].snap = loads[k].snap
          BY <2>2, <3>2 DEF LoadSave, LoadsT, IdleLoad
        <4> QED BY <1>1, <1>5, <2>2, <3>2, <4>1, SoundGrows, Zenon DEF LoadSave, Safe, LoadInv
      <3>3. CASE LoadInstall(l)
        BY <2>2, <3>3, Zenon DEF LoadInstall, LoadsT, IdleLoad
      <3> QED BY <3>1, <3>2, <3>3, Zenon
    <2> QED BY <2>1, <2>2, Zenon
  <1>9. loads'["command"].pc # "idle" => run'.pc = "idle"
    <2>1. CASE LoadRead(l)
      BY <2>1, Zenon DEF LoadRead, LoadsT, Sheltered, At, Safe, LoadInv
    <2>2. CASE LoadSave(l) \/ LoadInstall(l)
      BY <2>2, Zenon DEF LoadSave, LoadInstall, LoadsT, Safe, LoadInv, IdleLoad, ReloadTyped
    <2> QED BY <2>1, <2>2, Zenon
  <1> QED BY <1>3, <1>4, <1>6, <1>7, <1>8, <1>9, Zenon DEF Safe, LoadInv

\* The user's acknowledgement.
LEMMA AckStepSafe ==
    ASSUME Typed, Sheltered, Safe, world' = world, booked' = booked \cup disk'.servers,
           AckCheck \/ AckList \/ AckCheckKey \/ AckClear
    PROVE  Safe'
  <1> USE TypedParts
  <1>1. UNCHANGED <<run, loads, fate, owner>> /\ booked \subseteq booked'
    BY Zenon DEF AckCheck, AckList, AckCheckKey, AckClear, provider
  <1>2. LoadInv' /\ Decided'
    BY <1>1, LoadSafe, Zenon DEF Safe, LoadInv, Decided, May
  <1>3. CASE AckCheck \/ AckList \/ AckCheckKey
    <2>1. UNCHANGED <<disk, mem>>
      BY <1>3, Zenon DEF AckCheck, AckList, AckCheckKey
    <2>2. Sound(disk.pending, fate, owner, booked)' /\ Sound(mem.pending, fate, owner, booked)'
      BY <1>1, <2>1, StoresSafe, Zenon
    <2>3. RunInv'
      BY <1>1, <2>1, Zenon DEF RunInv, Safe
    <2>4. AckInv'
      <3>1. CASE AckCheck
        <4>1. run.pc = "idle" /\ May("ack") /\ mem.pending # NoAttempt
          BY <3>1, Zenon DEF AckCheck, At, Sheltered, Pending
        <4>2. ack'.pc = "list" /\ ack'.attempt = mem.pending
          BY <3>1, Zenon DEF AckCheck
        <4>3. mem.pending.req \in Requests
          BY <4>1, Zenon DEF StoresT, States, Attempts
        <4> QED BY <1>1, <4>1, <4>2, <4>3, Zenon DEF AckInv, Safe, Sound, Unresolved, May
      <3>2. CASE AckList /\ ack' = IdleAck
        BY <3>2, Zenon DEF IdleAck, AckInv
      <3>3. CASE AckList /\ ack' # IdleAck
        <4>1. May("ack") /\ ~May("late") /\ ~May("lag")
          BY <3>3, Zenon DEF AckList, Safe, AckInv, Sheltered
        <4>2. ack.attempt.req \notin Rentals(ack.attempt.key)
              /\ ack' = [ack EXCEPT !.pc = "check"]
          BY <3>3, <4>1, Zenon DEF AckList, Listing
        <4>3. ack.pc = "list" /\ ack.attempt.req \in Requests
          BY <3>3, Zenon DEF AckList, AckT, AckTyped, Attempts
        <4>4. ~Unresolved(ack.attempt.req)
          BY <4>1, <4>2, <4>3, Zenon DEF Unresolved, Rentals, Safe, Decided, AckInv
        <4>5. ack'.pc = "check" /\ ack'.attempt = ack.attempt
          BY <4>2, Zenon DEF AckT
        <4> QED BY <1>1, <4>3, <4>4, <4>5, Zenon DEF AckInv, Safe, Unresolved, May
      <3>4. CASE AckCheckKey /\ ack' = IdleAck
        BY <3>4, Zenon DEF IdleAck, AckInv
      <3>5. CASE AckCheckKey /\ ack' # IdleAck
        <4>1. ack.pc = "check" /\ ack'.pc = "clear" /\ ack'.attempt = ack.attempt
          BY <3>5, Zenon DEF AckCheckKey, AckT
        <4> QED BY <1>1, <4>1, Zenon DEF AckInv, Safe, Unresolved, May
      <3> QED BY <1>3, <3>1, <3>2, <3>3, <3>4, <3>5, Zenon
    <2> QED BY <1>2, <2>2, <2>3, <2>4, Zenon DEF Safe
  <1>4. CASE AckClear
    <2> DEFINE n == ClearAttempt(mem, ack.attempt)
    <2>1. AckInv'
      BY <1>4, Zenon DEF AckClear, IdleAck, AckInv
    <2>2. Saved(n) \/ NotSaved(n)
      BY <1>4, Zenon DEF AckClear
    <2>3. n = mem \/ (n.pending = NoAttempt /\ mem.pending.req = ack.attempt.req)
      BY IntentUpdates, Nil \in Requests \cup {Nil}, SMTT(30) DEF StoresT, AckT
    <2>4. ~Unresolved(ack.attempt.req)
      BY <1>4, Zenon DEF AckClear, Safe, AckInv
    <2>5. run.pc \in {"send", "wait", "confirm"} => ack.attempt.req # run.attempt.req
      BY <1>4, Zenon DEF AckClear, Safe, AckInv
    <2> HIDE DEF n
    <2>6. Sound(disk.pending, fate, owner, booked)' /\ Sound(mem.pending, fate, owner, booked)'
      BY <1>1, <2>2, <2>3, <2>4, ClearedSafe, Zenon
    <2>7. mem' = mem \/ (mem'.pending = NoAttempt /\ mem.pending.req = ack.attempt.req)
      BY <2>2, <2>3, Zenon DEF Saved, NotSaved
    <2>8. n = mem => disk' = disk \/ disk' = mem
      BY <2>2, Zenon DEF Saved, NotSaved
    <2>9. RunInv'
      <3>1. CASE run.pc \in {"send", "wait", "confirm"}
        <4>1. n = mem
          BY <2>3, <2>5, <3>1, Zenon DEF Safe, RunInv
        <4>2. mem' = mem /\ (disk' = disk \/ disk' = mem)
          BY <2>2, <4>1, Zenon DEF Saved, NotSaved
        <4> QED BY <1>1, <3>1, <4>2, Zenon DEF Safe, RunInv
      <3>2. CASE run.pc \notin {"send", "wait", "confirm"}
        BY <1>1, <2>7, <3>2, Zenon DEF Safe, RunInv
      <3> QED BY <3>1, <3>2, Zenon
    <2> QED BY <1>2, <2>1, <2>6, <2>9, Zenon DEF Safe
  <1> QED BY <1>3, <1>4, Zenon

\* The other writers keep the intent of memory.
LEMMA OtherStepSafe ==
    ASSUME Typed, Sheltered, Safe, world' = world, booked' = booked \cup disk'.servers,
           PollList \/ PollDecide \/ PollRemove \/ PollAdd \/ SaveElsewhere \/ update_vast_api_key
    PROVE  Safe'
  <1> USE TypedParts
  <1>1. UNCHANGED <<run, loads, ack, fate, owner>> /\ booked \subseteq booked'
    BY Zenon DEF PollList, PollDecide, PollRemove, PollAdd, SaveElsewhere, update_vast_api_key, provider,
           commands
  <1>2. ASSUME NEW n, n.pending = mem.pending, Saved(n) \/ NotSaved(n) PROVE Safe'
    <2>1. /\ mem'.pending = mem.pending
          /\ disk'.pending = disk.pending \/ disk'.pending = mem.pending
      BY <1>2, QuietSave, Zenon
    <2>2. RunInv'
      <3>1. run.pc # "complete" \/ run.got \in booked'
        BY <1>1, Zenon DEF Safe, RunInv
      <3> QED BY <1>1, <2>1, <3>1, Zenon DEF Safe, RunInv
    <2> QED BY <1>1, <2>1, <2>2, Quiet, Zenon DEF Safe, LoadInv
  <1>3. CASE PollList \/ PollDecide
    <2>1. UNCHANGED <<disk, mem>>
      BY <1>3, Zenon DEF PollList, PollDecide
    <2>2. RunInv'
      BY <1>1, <2>1, Zenon DEF Safe, RunInv
    <2> QED BY <1>1, <2>1, <2>2, Quiet, Zenon DEF Safe, LoadInv
  <1>4. CASE PollRemove
    <2>1. [mem EXCEPT !.servers = @ \cap poll.owned,
                      !.active = IF poll.clear THEN Nil ELSE @].pending = mem.pending
      BY Zenon DEF StoresT, States
    <2> QED BY <1>2, <1>4, <2>1, Zenon DEF PollRemove
  <1>5. CASE PollAdd
    <2>1. [mem EXCEPT !.servers = @ \cup poll.owned].pending = mem.pending
      BY Zenon DEF StoresT, States
    <2> QED BY <1>2, <1>5, <2>1, Zenon DEF PollAdd
  <1>6. CASE SaveElsewhere
    BY <1>2, <1>6, Zenon DEF SaveElsewhere
  <1>7. CASE update_vast_api_key
    <2>1. ASSUME NEW k PROVE [mem EXCEPT !.key = k].pending = mem.pending
      BY Zenon DEF StoresT, States
    <2> QED BY <1>2, <1>7, <2>1, Zenon DEF update_vast_api_key
  <1> QED BY <1>3, <1>4, <1>5, <1>6, <1>7, Zenon

\* A restart keeps the invariant: the store in memory is the one on disk.
LEMMA RestartSafe ==
    ASSUME Typed, Sheltered, Safe, world' = world, booked' = booked \cup disk'.servers, Restart
    PROVE  Safe'
  <1> USE TypedParts
  <1>1. UNCHANGED <<disk, fate, owner>> /\ booked \subseteq booked' /\ mem' = disk
    BY Zenon DEF Restart, provider
  <1>2. Sound(disk.pending, fate, owner, booked)' /\ Sound(mem.pending, fate, owner, booked)'
    BY <1>1, SoundGrows, Zenon DEF Safe
  <1>3. LoadInv' /\ RunInv' /\ AckInv'
    BY Zenon DEF Restart, LoadsT, IdleLoad, IdleRun, IdleAck, LoadInv, RunInv, AckInv
  <1>4. Decided'
    BY <1>1, Zenon DEF Safe, Decided, May
  <1> QED BY <1>2, <1>3, <1>4, Zenon DEF Safe

\* At the start no request is unresolved.
LEMMA SafeInit == Init => Safe
  <1> SUFFICES ASSUME Init PROVE Safe
    BY Zenon
  <1>1. \A r \in Requests : fate[r] \in {"rented", "new"} /\ (fate[r] = "rented" => r \in booked)
    BY CreationAssumption DEF Init
  <1>2. disk.pending = NoAttempt /\ mem.pending = NoAttempt
    BY DEF Init
  <1>3. Sound(NoAttempt, fate, owner, booked)
    BY <1>1, NoneSound, Zenon
  <1>4. LoadInv /\ RunInv /\ AckInv
    BY Zenon DEF Init, LoadInv, RunInv, AckInv, IdleLoad, IdleRun, IdleAck
  <1> QED BY <1>1, <1>2, <1>3, <1>4, Zenon DEF Safe, Decided

\* In a sheltered environment every step keeps the intents safe.
LEMMA SafeStep == Typed /\ Sheltered /\ Safe /\ [Next]_vars => Safe'
  <1> SUFFICES ASSUME Typed, Sheltered, Safe, [Next]_vars PROVE Safe'
    BY Zenon
  <1>1. CASE UNCHANGED vars
    BY <1>1, ZenonT(60) DEF vars, commands, provider, Safe, LoadInv, RunInv, AckInv, Decided, Unresolved, May
  <1>2. CASE Next
    <2>1. world' = world /\ booked' = booked \cup disk'.servers
      BY <1>2, Zenon DEF Next
    <2>2. DOMAIN loads = {"run", "command"}
      BY TypedParts, Zenon DEF LoadsT
    <2>3. CASE RunStep
      BY <2>1, <2>3, QuietRunStep, IntentRunStep, PrepareSaveSafe, SendSafe, Zenon DEF RunStep
    <2>4. CASE CommandStep
      BY <2>1, <2>2, <2>4, ReloadSafe, AckStepSafe, OtherStepSafe, Zenon DEF CommandStep
    <2> QED
      BY <1>2, <2>1, <2>3, <2>4, DecideLateSafe, OtherStepSafe, RestartSafe, Zenon DEF Next
  <1> QED BY <1>1, <1>2, Zenon

-----------------------------------------------------------------------------
\* The theorems.

\* A step never changes the environment.
LEMMA ShelteredStep == [Next]_vars => (Sheltered' <=> Sheltered)
  BY Zenon DEF Next, vars, Sheltered, May

\* The invariant and the types hold throughout, in every environment.
THEOREM PaidTypes == Spec => []TypeOK
  <1>1. Typed => TypeOK
    BY Zenon DEF Typed
  <1> QED BY <1>1, TypedInit, TypedStep, PTL DEF Spec

\* The intents are safe in every sheltered behaviour.
THEOREM PaidInvariant == Spec => []IInv
  <1>1. Init => IInv
    BY TypedInit, SafeInit, Zenon DEF IInv
  <1>2. IInv /\ [Next]_vars => IInv'
    BY TypedStep, SafeStep, ShelteredStep, Zenon DEF IInv
  <1> QED BY <1>1, <1>2, PTL DEF Spec

\* ProviderCreationService: through crashes, failing saves, lost and late
\* answers, changed keys and refreshes, a request that may have been paid for
\* keeps its intent, in the file and in memory, until its rental has a record.
THEOREM IntentAlwaysKept == Spec => []IntentKept
  <1>1. IInv => IntentKept
    BY Zenon DEF IInv, Safe, Sound, IntentKept, Unresolved
  <1> QED BY <1>1, PaidInvariant, PTL

\* A paid request goes out only when every earlier one is resolved.
THEOREM NeverPaidTwice == Spec => NoSecondPaidRequest
  <1> DEFINE Once == Sheltered => \A r \in Requests :
          fate[r] = "drawn" /\ fate'[r] # "drawn" => \A q \in Requests : ~Unresolved(q)
  <1>1. IInv /\ [Next]_vars => [Once]_vars
    <2> SUFFICES ASSUME IInv, Next, Sheltered, NEW r \in Requests,
                        fate[r] = "drawn", fate'[r] # "drawn", NEW q \in Requests, Unresolved(q)
                 PROVE  FALSE
      BY Zenon DEF IInv
    <2>1. Typed /\ Safe /\ ProviderT
      BY TypedParts, Zenon DEF IInv
    <2>2. CASE fate' = fate
      BY <2>2, Zenon
    <2>3. CASE DecideLate
      BY <2>1, <2>3, Zenon DEF DecideLate, ProviderT
    <2>4. CASE PrepareSave
      BY <2>1, <2>4, Zenon DEF PrepareSave, ProviderT
    <2>5. CASE Send
      <3>1. run.pc = "send" /\ fate[run.attempt.req] = "drawn" /\ mem.pending.req = run.attempt.req
        BY <2>1, <2>5, Zenon DEF Send, At, Safe, RunInv
      <3>2. mem.pending.req = q
        BY <2>1, Zenon DEF Safe, Sound, Unresolved
      <3> QED BY <3>1, <3>2, Zenon DEF Unresolved
    <2> QED
      <3>1. UNCHANGED fate \/ DecideLate \/ PrepareSave \/ Send
        BY Zenon DEF Next, RunStep, CommandStep, provider, RunStart, RecoverRead, RecoverList,
               RecoverCheck, RecoverAdopt, RunStops, PrepareCheck, Answer, accepted, KeepInstance,
               ensure_server_record, complete, rejected, Fallback, StartExisting, UseExisting,
               LoadRead, LoadSave, LoadInstall, AckCheck, AckList, AckCheckKey, AckClear, PollList, PollDecide,
               PollRemove, PollAdd, SaveElsewhere, update_vast_api_key, Restart
      <3> QED BY <2>2, <2>3, <2>4, <2>5, <3>1, Zenon
  <1> QED BY <1>1, PaidInvariant, PTL DEF Spec, NoSecondPaidRequest
=============================================================================
