--------------------------- MODULE AppStateStore ---------------------------
(***************************************************************************)
(* How the desktop application keeps its state: the credential vault of    *)
(* the operating system (services/secure_store.rs), the secrets taken out  *)
(* of the state before it is written (services/state_secrets.rs), the      *)
(* file state.json (services/state_store.rs), the copy in memory           *)
(* (services/app_context.rs), the Moonlight section that a second          *)
(* repository keeps in the same file, and the start-up that reads it all   *)
(* (main.rs).                                                              *)
(*                                                                         *)
(* A state is its settings, a number that every update changes, and two    *)
(* secrets: "key", one of the nine fixed accounts, and "profile", an entry *)
(* of a dynamic map whose ids the account "manifest" lists.                *)
(***************************************************************************)
EXTENDS Naturals, FiniteSets

CONSTANTS
  Worlds,       \* sets of behaviours explored one at a time
  MaxUpdates,   \* updates of the state
  MaxUpsets     \* crashes, failures and races

VARIABLES
  disk,      \* state.json
  safe,      \* what the operating system protects, per account
  relics,    \* items of earlier versions, per account
  secure,    \* the process' caches and the staged batch
  mem,       \* AppContext::state, Down when the process does not run
  saver,     \* the update_state in progress
  loader,    \* the load_state in progress
  moonlight, \* the Moonlight repository's update in progress
  keyFile,   \* moonlight/identity/client.key
  promised,  \* what the last acknowledged save promised
  staged,    \* states whose save began and was not acknowledged
  updates, upsets, world

stateVars == << disk, safe, relics, secure, mem, saver, loader, moonlight,
                keyFile, promised, staged, updates, upsets >>
vars == << stateVars, world >>

May(b) == b \in world
\* A value is the number of the update that chose it, 0 before the first.
None == 100     \* an explicit null, or an empty string
Absent == 101   \* no entry at all
Unread == 102   \* not in the cache
Fixed == "key"
Manifest == "manifest"
Profile == "profile"
Accounts == {Fixed, Manifest, Profile}
NoSecrets == [key |-> None, profile |-> None]
DefaultState == [settings |-> 0, secrets |-> NoSecrets]
Down == [settings |-> None, secrets |-> NoSecrets]
NoMoon == [id |-> 0, paired |-> FALSE, edits |-> 0]
NoFile == [kind |-> "absent", settings |-> 0, plain |-> NoSecrets,
           moon |-> NoMoon]
Corrupt == [NoFile EXCEPT !.kind = "corrupt"]

(***************************************************************************)
(* The vault.  A step works on a record of everything it touches; `fate`   *)
(* is what the operating system does with it, `ok` whether all went well.  *)
(***************************************************************************)
EmptySecure ==
  [vault |-> [a \in Accounts |-> Unread], cache |-> [a \in Accounts |-> Unread],
   batch |-> [a \in Accounts |-> Unread]]

Work(fate) == [safe |-> safe, vault |-> secure.vault, cache |-> secure.cache,
               batch |-> secure.batch, fate |-> fate, ok |-> TRUE]

Failed(s) == [s EXCEPT !.ok = FALSE]

Plain(v) == IF v \in {Absent, Unread} THEN None ELSE v

\* Vault::locked: the protected document is read once.
locked(s) ==
  IF \E a \in Accounts : s.vault[a] # Unread THEN s
  ELSE IF s.fate = "locked" THEN Failed(s)
  ELSE [s EXCEPT !.vault = s.safe]

\* Vault::commit: write, read back, publish.
commit(s, next) ==
  IF s.vault = next THEN s
  ELSE CASE s.fate = "denied" -> Failed(s)
         [] s.fate = "unverified" -> Failed([s EXCEPT !.safe = next])
         [] OTHER -> [s EXCEPT !.safe = next, !.vault = next]

\* Vault::get: the cached entry, or the import of an earlier version's item.
VaultGet(s0, a) ==
  LET s == locked(s0)
  IN IF ~s.ok \/ s.vault[a] # Absent THEN s
     ELSE IF relics[a] = Absent THEN [s EXCEPT !.vault[a] = None]
     ELSE commit(s, [s.vault EXCEPT ![a] = relics[a]])

Staged(s) == {a \in Accounts : s.batch[a] # Unread}

\* A deletion that forgets the entry instead of marking it deleted.
WithoutMarkers(s0) ==
  LET s == locked(s0)
  IN IF ~s.ok THEN s
     ELSE commit(s, [a \in Accounts |->
            IF a \notin Staged(s) THEN s.vault[a]
            ELSE IF s.batch[a] = None THEN Absent ELSE s.batch[a]])

\* Vault::update: the whole batch is one write.
VaultUpdate(s0) ==
  LET s == locked(s0)
  IN IF ~s.ok THEN s
     ELSE commit(s, [a \in Accounts |->
            IF a \in Staged(s) THEN s.batch[a] ELSE s.vault[a]])

\* secure_store::get on Windows: one item for each account, no import.
WindowsGet(s, a) ==
  IF s.vault[a] # Unread THEN s
  ELSE IF s.fate = "locked" THEN Failed(s)
  ELSE [s EXCEPT !.vault[a] = Plain(s.safe[a])]

\* secure_store::update on Windows: one item after the other, in the order
\* of their names, until one is refused.
WindowsUpdate(s) ==
  LET order == << Fixed, Manifest, Profile >>
      changed == {i \in 1 .. 3 : order[i] \in Staged(s)
                                 /\ s.vault[order[i]] # s.batch[order[i]]}
      last == CASE s.fate = "denied" -> 0
                [] s.fate = "halfway" ->
                     IF changed = {} THEN 3 ELSE CHOOSE i \in changed :
                       \A j \in changed : i <= j
                [] OTHER -> 3
      done == {order[i] : i \in {j \in changed : j <= last}}
      s1 == [s EXCEPT
               !.safe = [a \in Accounts |->
                  IF a \notin done THEN s.safe[a]
                  ELSE IF s.batch[a] = None THEN Absent ELSE s.batch[a]],
               !.vault = [a \in Accounts |->
                  IF a \in done THEN s.batch[a] ELSE s.vault[a]]]
  IN IF \A i \in changed : i <= last THEN s1 ELSE Failed(s1)

(***************************************************************************)
(* The secrets of the state: a cache, and a batch written by flush.        *)
(***************************************************************************)
get(s, a) ==
  IF ~s.ok \/ s.cache[a] # Unread THEN s
  ELSE LET t == IF May("windows") THEN WindowsGet(s, a) ELSE VaultGet(s, a)
       IN IF t.ok THEN [t EXCEPT !.cache[a] = Plain(t.vault[a])] ELSE t

Stage(s, a, v) == [s EXCEPT !.batch[a] = v, !.cache[a] = v]

put(s, a, v) ==
  LET t == get(s, a)
  IN IF ~t.ok \/ t.cache[a] = v THEN t ELSE Stage(t, a, v)

delete(s, a) == IF s.ok THEN Stage(s, a, None) ELSE s

flush(s) ==
  IF ~s.ok \/ Staged(s) = {} THEN s
  ELSE LET t == IF May("windows") THEN WindowsUpdate(s) ELSE VaultUpdate(s)
       IN IF t.ok THEN [t EXCEPT !.batch = EmptySecure.batch] ELSE t

discard_batch(s) ==
  [s EXCEPT !.batch = EmptySecure.batch, !.cache = EmptySecure.cache]

hydrate_string(s, a, v) == IF v = None THEN get(s, a) ELSE put(s, a, v)

protect_string(s, a, v) == IF v = None THEN delete(s, a) ELSE put(s, a, v)

save_manifest(s, listed) ==
  IF listed THEN put(s, Manifest, 1) ELSE delete(s, Manifest)

Listed(s) == s.cache[Manifest] = 1

hydrate_dynamic_map(s0, v) ==
  LET s1 == get(s0, Manifest)
      s2 == IF v # None THEN put(s1, Profile, v)
            ELSE IF Listed(s1) THEN get(s1, Profile) ELSE s1
  IN save_manifest(s2, Listed(s1) \/ v # None)

protect_dynamic_map(s0, v) ==
  LET s1 == get(s0, Manifest)
      s2 == IF v # None THEN put(s1, Profile, v)
            ELSE IF Listed(s1) THEN delete(s1, Profile) ELSE s1
  IN save_manifest(s2, v # None)

hydrate_or_migrate(s, plain) ==
  flush(hydrate_dynamic_map(hydrate_string(s, Fixed, plain.key),
                            plain.profile))

\* What the state holds once it is hydrated.
Hydrated(s, plain) ==
  [key |-> s.cache[Fixed],
   profile |-> IF plain.profile # None THEN plain.profile
               ELSE IF Listed(s) THEN Plain(s.cache[Profile]) ELSE None]

\* protect_for_save; the copy without secrets is what the file then takes.
protect_for_save(s, secrets) ==
  flush(protect_dynamic_map(protect_string(s, Fixed, secrets.key),
                            secrets.profile))

Settle(s) ==
  /\ safe' = s.safe
  /\ LET t == IF s.ok THEN s ELSE discard_batch(s)
     IN secure' = [vault |-> t.vault, cache |-> t.cache, batch |-> t.batch]

\* What the operating system may do with the step's accesses.
Fates ==
  {"fine"} \cup
  (IF upsets < MaxUpsets
   THEN {f \in {"locked", "denied", "unverified", "halfway"} : May(f)}
   ELSE {})

Spent(fate) == upsets' = IF fate = "fine" THEN upsets ELSE upsets + 1

(***************************************************************************)
(* state.json.  JsonStateStore::save_state reads the sections of the file  *)
(* it does not know (load_existing_root_map) and writes them back with the *)
(* state; the Moonlight repository does the opposite.                      *)
(***************************************************************************)
load_existing_root_map == IF disk.kind = "ok" THEN disk.moon ELSE NoMoon

Written(settings, plain, moon) ==
  [kind |-> "ok", settings |-> settings, plain |-> plain, moon |-> moon]

\* The outcome of write_atomically: the new file, or the old one.
Writes(file, good) == disk' = IF good THEN file ELSE disk

Outcomes == {TRUE} \cup (IF May("full") /\ upsets < MaxUpsets THEN {FALSE}
                         ELSE {})

Idle == [pc |-> "idle"]
Storing == saver.pc = "write" \/ loader.pc \in {"migrate", "protect", "scrub"}
Up == mem # Down

(***************************************************************************)
(* AppContext::update_state, under the lock of the state: protect, read    *)
(* the other sections, write, and only then change the memory.             *)
(***************************************************************************)
NextStates ==
  {[settings |-> updates + 1, secrets |-> [key |-> k, profile |-> p]] :
     k \in {None, updates + 1, mem.secrets.key},
     p \in {None, updates + 1, mem.secrets.profile}}

update_state ==
  /\ Up /\ saver.pc = "idle" /\ ~Storing /\ updates < MaxUpdates
  /\ \E next \in NextStates, fate \in Fates :
       LET s == protect_for_save(Work(fate), next.secrets)
       IN /\ Settle(s)
          /\ Spent(fate)
          /\ staged' = staged \cup {next}
          /\ saver' = IF s.ok THEN [pc |-> "write", next |-> next,
                                    moon |-> load_existing_root_map]
                      ELSE Idle
  /\ updates' = updates + 1
  /\ UNCHANGED << disk, relics, mem, loader, moonlight, keyFile, promised >>

save_state ==
  /\ saver.pc = "write"
  /\ \E good \in Outcomes :
       /\ Writes(Written(saver.next.settings, NoSecrets, saver.moon), good)
       /\ mem' = IF good THEN saver.next ELSE mem
       /\ promised' = IF good THEN saver.next ELSE promised
       /\ staged' = IF good THEN {} ELSE staged
       /\ upsets' = IF good THEN upsets ELSE upsets + 1
  /\ saver' = Idle
  /\ UNCHANGED << safe, relics, secure, loader, moonlight, keyFile, updates >>

(***************************************************************************)
(* KeychainBackedStateStore::load_state, at start-up and for               *)
(* reload_state_from_disk.                                                 *)
(***************************************************************************)
Loading(pc, why) == [pc |-> pc, why |-> why, state |-> DefaultState,
                     moon |-> NoMoon]

reload_state_from_disk ==
  /\ May("reload") /\ Up /\ loader.pc = "idle" /\ upsets < MaxUpsets
  /\ loader' = Loading("read", "reload")
  /\ upsets' = upsets + 1
  /\ UNCHANGED << disk, safe, relics, secure, mem, saver, moonlight, keyFile,
                  promised, staged, updates >>

\* JsonStateStore::load_state: a missing file, one that does not parse and
\* is set aside (recover_invalid_state), or one to migrate_value.
load_state ==
  /\ loader.pc = "read" /\ ~Storing
  /\ loader' = [loader EXCEPT
       !.pc = "migrate",
       !.state = IF disk.kind = "ok"
                 THEN [settings |-> disk.settings, secrets |-> disk.plain]
                 ELSE DefaultState,
       !.moon = load_existing_root_map]
  /\ disk' = IF disk.kind = "corrupt" THEN NoFile ELSE disk
  /\ UNCHANGED << safe, relics, secure, mem, saver, moonlight, keyFile,
                  promised, staged, updates, upsets >>

GoesOn(pc, state) == [loader EXCEPT !.pc = pc, !.state = state,
                                    !.moon = load_existing_root_map]

\* A load that failed: a reload reports it; start-up gives up when it is the
\* vault and otherwise deletes the file (reset_persisted_state), and goes on
\* with defaults when the load after that fails too.
LoadFails(cause) ==
  loader' = CASE loader.why = "reload" -> Idle
              [] loader.why = "boot" -> IF cause = "file"
                                        THEN Loading("reset", "reset") ELSE Idle
              [] loader.why = "reset" -> GoesOn("normalize", DefaultState)
              [] loader.why = "normalized" -> GoesOn("save", DefaultState)

\* JsonStateStore::load_state ends by saving what it migrated.
SaveMigrated ==
  /\ loader.pc = "migrate"
  /\ \E good \in Outcomes :
       /\ Writes(Written(loader.state.settings, loader.state.secrets,
                         loader.moon), good)
       /\ upsets' = IF good THEN upsets ELSE upsets + 1
       /\ IF good THEN loader' = [loader EXCEPT !.pc = "protect"]
          ELSE LoadFails("file")
  /\ UNCHANGED << safe, relics, secure, mem, saver, moonlight, keyFile, promised,
                  staged, updates >>

Protect ==
  /\ loader.pc = "protect"
  /\ \E fate \in Fates :
       LET plain == loader.state.secrets
           h == hydrate_or_migrate(Work(fate), plain)
           secrets == Hydrated(h, plain)
           s == IF h.ok THEN protect_for_save(h, secrets) ELSE h
       IN /\ Settle(s)
          /\ Spent(fate)
          /\ IF s.ok
             THEN loader' = GoesOn("scrub", [loader.state EXCEPT
                                               !.secrets = secrets])
             ELSE LoadFails("vault")
  /\ UNCHANGED << disk, relics, mem, saver, moonlight, keyFile, promised, staged,
                  updates >>

Scrub ==
  /\ loader.pc = "scrub"
  /\ \E good \in Outcomes :
       /\ Writes(Written(loader.state.settings, NoSecrets, loader.moon), good)
       /\ upsets' = IF good THEN upsets ELSE upsets + 1
       /\ IF ~good THEN LoadFails("file")
          ELSE loader' = [loader EXCEPT
                 !.pc = CASE loader.why = "reload" -> "publish"
                          [] loader.why = "normalized" -> "save"
                          [] OTHER -> "normalize"]
  /\ UNCHANGED << safe, relics, secure, mem, saver, moonlight, keyFile,
                  promised, staged, updates >>

\* reload_state_from_disk takes the lock of the state only now.
Publish ==
  /\ loader.pc = "publish" /\ saver.pc = "idle"
  /\ mem' = loader.state
  /\ loader' = Idle
  /\ UNCHANGED << disk, safe, relics, secure, saver, moonlight, keyFile,
                  promised, staged, updates, upsets >>

(***************************************************************************)
(* Start-up: the Moonlight identity first, then the state.                 *)
(***************************************************************************)
\* load_root_document sets a file aside that does not parse.
load_root_document == IF disk.kind = "corrupt" THEN NoFile ELSE disk

\* No identity yet, or one whose key is missing and that no host was
\* paired with.
NeedsIdentity(file) ==
  file.moon.id = 0 \/ (keyFile = 0 /\ ~file.moon.paired)

\* bootstrap_client_identity: the key first, then the certificate.
generate_client_identity ==
  /\ loader.pc \in {"boot", "reset"}
  /\ disk' = IF loader.pc = "reset" THEN NoFile ELSE load_root_document
  /\ keyFile' = IF NeedsIdentity(disk') THEN keyFile + disk'.moon.id + 1
                ELSE keyFile
  /\ loader' = [loader EXCEPT
       !.pc = IF NeedsIdentity(disk') THEN "certify" ELSE "read"]
  /\ UNCHANGED << safe, relics, secure, mem, saver, moonlight, promised,
                  staged, updates, upsets >>

\* A failed bootstrap is a warning.
Certify ==
  /\ loader.pc = "certify"
  /\ \E good \in Outcomes :
       /\ Writes([disk EXCEPT !.kind = "ok", !.moon.id = keyFile], good)
       /\ upsets' = IF good THEN upsets ELSE upsets + 1
  /\ loader' = [loader EXCEPT !.pc = "read"]
  /\ UNCHANGED << safe, relics, secure, mem, saver, moonlight, keyFile,
                  promised, staged, updates >>

\* normalize_wireguard_state_from_disk; a tunnel configuration that cannot
\* be read or copied deletes the state as well.
NormalizeWireguard ==
  /\ loader.pc = "normalize"
  /\ \/ loader' = [loader EXCEPT !.pc = "save"] /\ UNCHANGED upsets
     \/ /\ May("tunnelfile") /\ upsets < MaxUpsets
        /\ loader' = Loading("reset", "normalized")
        /\ upsets' = upsets + 1
  /\ UNCHANGED << disk, safe, relics, secure, mem, saver, moonlight, keyFile,
                  promised, staged, updates >>

Starts(state) ==
  /\ mem' = state
  /\ promised' = state
  /\ staged' = {}
  /\ loader' = Idle

\* Preferences, keys and display filled in: the state is saved when that
\* changed something, and the application starts whether or not it could be.
SaveNormalized ==
  /\ loader.pc = "save"
  /\ Starts(loader.state)
  /\ \/ UNCHANGED << disk, safe, secure, upsets >>
     \/ \E fate \in Fates, good \in Outcomes :
          LET s == protect_for_save(Work(fate), loader.state.secrets)
          IN /\ fate = "fine" \/ good
             /\ Settle(s)
             /\ Writes(Written(loader.state.settings, NoSecrets,
                               load_existing_root_map), good /\ s.ok)
             /\ upsets' = IF fate = "fine" /\ good THEN upsets ELSE upsets + 1
  /\ UNCHANGED << relics, saver, moonlight, keyFile, updates >>

Boot ==
  /\ ~Up /\ loader.pc = "idle"
  /\ loader' = Loading("boot", "boot")
  /\ UNCHANGED << disk, safe, relics, secure, mem, saver, moonlight, keyFile,
                  promised, staged, updates, upsets >>

(***************************************************************************)
(* JsonMoonlightStateRepository::update, under a lock of its own.          *)
(***************************************************************************)
MoonRead ==
  /\ May("moonlight") /\ Up /\ moonlight.pc = "idle" /\ upsets < MaxUpsets
  /\ disk' = load_root_document
  /\ moonlight' = [pc |-> "write", file |-> disk']
  /\ upsets' = upsets + 1
  /\ UNCHANGED << safe, relics, secure, mem, saver, loader, keyFile, promised,
                  staged, updates >>

write_root_document ==
  /\ moonlight.pc = "write"
  /\ disk' = [moonlight.file EXCEPT !.kind = "ok", !.moon.paired = TRUE,
                                    !.moon.edits = @ + 1]
  /\ moonlight' = Idle
  /\ UNCHANGED << safe, relics, secure, mem, saver, loader, keyFile, promised,
                  staged, updates, upsets >>

(***************************************************************************)
(* What goes wrong around the store.                                       *)
(***************************************************************************)
Crash ==
  /\ May("crash") \/ (May("quit") /\ saver.pc = "idle" /\ loader.pc = "idle")
  /\ upsets < MaxUpsets
  /\ Up \/ loader.pc # "idle"
  /\ mem' = Down
  /\ secure' = EmptySecure
  /\ saver' = Idle /\ loader' = Idle /\ moonlight' = Idle
  /\ upsets' = upsets + 1
  /\ UNCHANGED << disk, safe, relics, keyFile, promised, staged, updates >>

FileDamaged ==
  /\ May("damage") /\ upsets < MaxUpsets /\ ~Up /\ loader.pc = "idle"
  /\ disk' = Corrupt
  /\ upsets' = upsets + 1
  /\ UNCHANGED << safe, relics, secure, mem, saver, loader, moonlight, keyFile,
                  promised, staged, updates >>

KeyLost ==
  /\ May("keyless") /\ upsets < MaxUpsets /\ ~Up /\ loader.pc = "idle"
  /\ keyFile # 0
  /\ keyFile' = 0
  /\ upsets' = upsets + 1
  /\ UNCHANGED << disk, safe, relics, secure, mem, saver, loader, moonlight,
                  promised, staged, updates >>

\* A first start; or one after an update from a version that kept its
\* secrets in the file, or as items of their own in the vault.
Init ==
  /\ world \in Worlds
  /\ \E old \in {NoSecrets} \cup
       (IF May("legacy") THEN {[key |-> 0, profile |-> 0]} ELSE {}),
        kept \in {"nowhere", "file", "items"} :
       /\ (old = NoSecrets) <=> (kept = "nowhere")
       /\ disk = IF kept = "file" THEN Written(0, old, NoMoon) ELSE NoFile
       /\ LET items == IF kept = "items"
                       THEN [key |-> 0, manifest |-> 1, profile |-> 0]
                       ELSE [a \in Accounts |-> Absent]
              nothing == [a \in Accounts |-> Absent]
          IN /\ safe = (IF May("windows") THEN items ELSE nothing)
             /\ relics = (IF May("windows") THEN nothing ELSE items)
       /\ promised = [settings |-> 0, secrets |-> old]
  /\ secure = EmptySecure
  /\ mem = Down
  /\ saver = Idle /\ loader = Idle /\ moonlight = Idle
  /\ keyFile = 0
  /\ staged = {}
  /\ updates = 0 /\ upsets = 0

Next ==
  /\ \/ update_state \/ save_state
     \/ reload_state_from_disk \/ load_state \/ SaveMigrated \/ Protect
     \/ Scrub \/ Publish
     \/ generate_client_identity \/ Certify \/ Boot
     \/ NormalizeWireguard \/ SaveNormalized
     \/ MoonRead \/ write_root_document
     \/ Crash \/ FileDamaged \/ KeyLost
  /\ UNCHANGED world

Spec == Init /\ [][Next]_vars

Undisturbed == world \cap {"full", "unverified", "reload", "halfway", "tunnelfile"}
               = {}

\* A step property: whatever crashed, whichever access to the vault was refused and wherever
\* the secrets of an earlier version were kept, a start restores the secrets
\* of the last save that was acknowledged or of one that was under way, all
\* of them from the same save (a batch is one write, a deletion leaves a
\* marker that stops a second import), and the settings as well unless the
\* file was damaged or the Moonlight repository wrote it meanwhile.
RestartRestoresSaved ==
  mem = Down /\ mem' # Down /\ Undisturbed =>
    /\ \E s \in {promised} \cup staged : mem'.secrets = s.secrets
    /\ world \cap {"damage", "moonlight"} = {} =>
         \E s \in {promised} \cup staged : mem'.settings = s.settings

\* Once the application runs, no secret is left in state.json, whatever the
\* Moonlight repository writes back and whichever write failed before: the
\* load scrubs the file before it returns, and a start whose write fails
\* deletes it.
PlaintextGone ==
  Up /\ loader.pc = "idle" /\ disk.kind = "ok" => disk.plain = NoSecrets

\* A step property: the identity that hosts were paired with is never replaced: start-up
\* repairs a missing key only while no host depends on it.
PairedIdentityKept ==
  disk.kind = "ok" /\ disk'.kind = "ok" /\ disk.moon.paired
    /\ disk'.moon.paired => disk'.moon.id = disk.moon.id

\* A step property: saving the state preserves the sections of the file it does not know: an
\* update the Moonlight repository wrote is still there after it.
MoonlightKept ==
  disk.kind = "ok" /\ disk'.kind = "ok" =>
    disk'.moon.edits >= disk.moon.edits
=============================================================================
