-------------------------- MODULE StorageProfiles --------------------------
(***************************************************************************)
(* The storage providers the user has connected: authorization sessions    *)
(* and their loopback servers, profile references and credentials in the   *)
(* persisted state, the one repository key, and the renewal of access      *)
(* tokens whenever a profile is used.                                      *)
(*                                                                         *)
(* Each command is a task of its own.  AppContext::update_state is atomic; *)
(* a command makes several of them, and any may fail to be saved.          *)
(***************************************************************************)
EXTENDS Naturals, Sequences, FiniteSets

CONSTANTS Clerks,      \* commands that run at the same time
          Logins,      \* authorization sessions
          MaxProfiles, \* bound: profiles ever created
          MaxRenewals, \* bound: renewals of one grant
          MaxUpsets,   \* bound: failed saves
          Worlds,      \* the commands in use, the state found on disk, what may go wrong
          NoKey, NoLogin

VARIABLES
    store,    \* the persisted state: references, credentials, session tokens, shared key
    logins,   \* OAUTH_SESSIONS
    servers,  \* the loopback server of each session
    port,     \* the session whose server is bound to 127.0.0.1:17770
    grants,   \* at the provider: how often each profile's grant was renewed
    clerks,   \* what each command is doing
    minted,   \* keys and profile ids generated so far
    used,     \* repository keys that uploaded data was encrypted with
    upsets, world

app == <<store, logins, servers, port, grants, clerks, minted, used, upsets>>
vars == <<app, world>>

May(b) == b \in world
Upset == May("disk") /\ upsets < MaxUpsets /\ upsets' = upsets + 1

Idle == [pc |-> "idle", cmd |-> "none", login |-> NoLogin, todo |-> {}, id |-> 0, key |-> NoKey,
         token |-> 0]
At(c, pc) == clerks[c].pc = pc
Goto(c, pc) == clerks' = [clerks EXCEPT ![c].pc = pc]
Over(c) == clerks' = [clerks EXCEPT ![c] = Idle]

Referenced(id) == \E i \in 1..Len(store.refs) : store.refs[i].id = id
Known == DOMAIN store.creds

\* What earlier versions left on disk: nothing, or profiles with keys of their own.
Legacy == {n \in 1..MaxProfiles : (n = 1 /\ (May("legacy") \/ May("legacies")))
                                  \/ (n = 2 /\ May("legacies"))}
Init ==
    /\ world \in Worlds
    /\ store = [refs |-> [n \in 1..Cardinality(Legacy) |-> [id |-> n, active |-> n = 1]],
                creds |-> [n \in Legacy |-> [token |-> 0, key |-> n]],
                tokens |-> {}, shared |-> NoKey]
    /\ logins = [s \in Logins |-> "unused"]
    /\ servers = [s \in Logins |-> "none"]
    /\ port = NoLogin
    /\ grants = [n \in 1..MaxProfiles |-> 0]
    /\ clerks = [c \in Clerks |-> Idle]
    /\ minted = [keys |-> Cardinality(Legacy), profiles |-> Cardinality(Legacy)]
    /\ used = {}
    /\ upsets = 0

\* update_state: saved, or refused and the command ends with an error.
Update(c, new, pc) ==
    \/ store' = new /\ Goto(c, pc) /\ upsets' = upsets
    \/ Upset /\ store' = store /\ Over(c)

(***************************************************************************)
(* Authorization.                                                          *)
(***************************************************************************)
InMap(s) == logins[s] \in {"pending", "completed", "failed"}

Start(c, cmd, login, id, pc) ==
    /\ At(c, "idle") /\ May(cmd)
    /\ clerks' = [clerks EXCEPT ![c] = [Idle EXCEPT !.cmd = cmd, !.login = login, !.id = id, !.pc = pc,
                                           !.todo = {s \in Logins : InMap(s)}]]
    /\ UNCHANGED <<store, logins, servers, port, grants, minted, used, upsets>>

begin_oauth_authorization(c) ==
    \E s \in Logins :
        /\ logins[s] = "unused" /\ (\A d \in Clerks : clerks[d].login # s)
        /\ Start(c, "oauth", s, 0, "clear")

save_static_provider_credentials(c) == Start(c, "static", NoLogin, 0, "clear")

\* clear_pending_oauth_sessions: the token of every session that was in the map
\* is deleted, then its entry.
clear_pending_oauth_sessions(c) ==
    /\ At(c, "clear")
    /\ IF clerks[c].todo = {}
       THEN /\ Goto(c, IF clerks[c].cmd = "oauth" THEN "open" ELSE "parse")
            /\ UNCHANGED <<store, logins, upsets>>
       ELSE \E s \in clerks[c].todo :
              \/ /\ store' = [store EXCEPT !.tokens = @ \ {s}]
                 /\ logins' = [logins EXCEPT ![s] = IF InMap(s) THEN "gone" ELSE @]
                 /\ clerks' = [clerks EXCEPT ![c].todo = @ \ {s}]
                 /\ upsets' = upsets
              \/ Upset /\ Over(c) /\ UNCHANGED <<store, logins>>
    /\ UNCHANGED <<servers, port, grants, minted, used>>

\* The provider's name reaches the commands as text, and is put between quotes
\* to be read as JSON: format!("\"{}\"", provider) here, r#"\"{}\""# for static
\* credentials, where the raw string keeps the backslashes.
Quoted(name) == <<"quote", name, "quote">>
RawQuoted(name) == <<"backslash", "quote", name, "backslash", "quote">>
FromJson(text) == IF Len(text) = 3 /\ text[1] = "quote" /\ text[3] = "quote" THEN {text[2]} ELSE {}

\* The provider is read and the credentials are built from the fields.
ParseStatic(c) ==
    /\ At(c, "parse")
    /\ clerks' = [clerks EXCEPT ![c].pc = IF FromJson(RawQuoted("b2")) = {"b2"} THEN "key"
                                          ELSE "refused"]
    /\ UNCHANGED <<store, logins, servers, port, grants, minted, used, upsets>>

Refused(c) ==
    /\ At(c, "refused") /\ Over(c)
    /\ UNCHANGED <<store, logins, servers, port, grants, minted, used, upsets>>

\* The session is entered and its server spawned; the user goes to the browser.
OpenSession(c) ==
    /\ At(c, "open")
    /\ FromJson(Quoted("drive")) = {"drive"}
    /\ logins' = [logins EXCEPT ![clerks[c].login] = "pending"]
    /\ servers' = [servers EXCEPT ![clerks[c].login] = "bind"]
    /\ Over(c)
    /\ UNCHANGED <<store, port, grants, minted, used, upsets>>

\* run_loopback_server: the port is the same for every session.
Bind(s) ==
    /\ servers[s] = "bind"
    /\ IF port = NoLogin THEN port' = s /\ servers' = [servers EXCEPT ![s] = "listen"]
       ELSE port' = port /\ servers' = [servers EXCEPT ![s] = "done"]
    /\ UNCHANGED <<store, logins, grants, clerks, minted, used, upsets>>

\* The listener is closed when the server returns.
Closes(s) == servers' = [servers EXCEPT ![s] = "done"] /\ port' = NoLogin
Fails(s) == logins' = [logins EXCEPT ![s] = IF InMap(s) THEN "failed" ELSE @]

\* The browser comes back with the code and state of session s, to whichever
\* server listens: it knows only its own session.
Callback(r, s) ==
    /\ servers[r] = "listen" /\ logins[s] # "unused"
    /\ IF ~ InMap(r) THEN Closes(r) /\ logins' = logins
       ELSE IF r # s THEN Closes(r) /\ Fails(r)
       ELSE servers' = [servers EXCEPT ![r] = "exchange"] /\ port' = port /\ logins' = logins
    /\ UNCHANGED <<store, grants, clerks, minted, used, upsets>>

\* The user denies, or the provider gives no code or no refresh token.
Denied(r) ==
    /\ May("deny") /\ servers[r] \in {"listen", "exchange"}
    /\ Closes(r) /\ Fails(r)
    /\ UNCHANGED <<store, grants, clerks, minted, used, upsets>>

\* exchange_code and store_oauth_session_credentials ...
StoreToken(r) ==
    /\ servers[r] = "exchange"
    /\ \/ store' = [store EXCEPT !.tokens = @ \cup {r}] /\ upsets' = upsets
          /\ servers' = [servers EXCEPT ![r] = "stored"] /\ port' = port
       \/ Upset /\ Closes(r) /\ store' = store
    /\ UNCHANGED <<logins, grants, clerks, minted, used>>

\* ... and the session, if it is still there, is completed.
Completed(r) ==
    /\ servers[r] = "stored"
    /\ logins' = [logins EXCEPT ![r] = IF InMap(r) THEN "completed" ELSE @]
    /\ Closes(r)
    /\ UNCHANGED <<store, grants, clerks, minted, used, upsets>>

cancel_oauth_authorization(c) ==
    \E s \in Logins : logins[s] # "unused" /\ Start(c, "cancel", s, 0, "forget")

\* complete_oauth_authorization takes a copy of the session, and the token.
complete_oauth_authorization(c) ==
    \E s \in Logins :
        /\ InMap(s) /\ logins[s] # "pending"
        /\ Start(c, "complete", s, 0, IF logins[s] = "completed" /\ s \in store.tokens
                                      THEN "key" ELSE "forget")

\* clear_oauth_session_artifacts
clear_oauth_session_artifacts(c) ==
    /\ At(c, "forget")
    /\ \/ /\ store' = [store EXCEPT !.tokens = @ \ {clerks[c].login}] /\ upsets' = upsets
          /\ logins' = [logins EXCEPT ![clerks[c].login] = IF InMap(clerks[c].login) THEN "gone" ELSE @]
          /\ IF clerks[c].id = 0 THEN Over(c) ELSE Goto(c, "refer")
       \/ Upset /\ Over(c) /\ UNCHANGED <<store, logins>>
    /\ UNCHANGED <<servers, port, grants, minted, used>>

(***************************************************************************)
(* The repository key.                                                     *)
(***************************************************************************)
After(c) == IF clerks[c].cmd = "disconnect" THEN "erase" ELSE "save"

\* ensure_repository_key: the shared key, or the first key of a profile, or a
\* new one ...
KeyRead(c) ==
    /\ At(c, "key")
    /\ IF store.shared # NoKey
       THEN /\ clerks' = [clerks EXCEPT ![c].key = store.shared, ![c].pc = After(c)]
            /\ minted' = minted
       ELSE \/ \E n \in Known : /\ clerks' = [clerks EXCEPT ![c].key = store.creds[n].key,
                                                            ![c].pc = "hoist"]
                                /\ minted' = minted
            \/ /\ Known = {}
               /\ clerks' = [clerks EXCEPT ![c].key = minted.keys + 1, ![c].pc = "hoist"]
               /\ minted' = [minted EXCEPT !.keys = @ + 1]
    /\ UNCHANGED <<store, logins, servers, port, grants, used, upsets>>

\* ... written only if there is still none; but returned in any case.
Hoisted(k) == IF store.shared = NoKey THEN k ELSE store.shared

KeyHoist(c) ==
    /\ At(c, "hoist")
    /\ Update(c, [store EXCEPT !.shared = Hoisted(clerks[c].key)], After(c))
    /\ UNCHANGED <<logins, servers, port, grants, minted, used>>

(***************************************************************************)
(* Profiles.                                                               *)
(***************************************************************************)

\* save_static_credentials: a new profile id with the credentials and the key.
SaveCredentials(c) ==
    /\ At(c, "save")
    /\ LET n == minted.profiles + 1
       IN  \/ n > MaxProfiles /\ Over(c) /\ UNCHANGED <<store, minted, upsets>>
           \/ /\ n <= MaxProfiles
              /\ store' = [store EXCEPT !.creds =
                              [m \in Known \cup {n} |->
                                 IF m = n THEN [token |-> 0, key |-> clerks[c].key] ELSE store.creds[m]]]
              /\ minted' = [minted EXCEPT !.profiles = n]
              /\ clerks' = [clerks EXCEPT ![c].id = n,
                               ![c].pc = IF clerks[c].cmd = "complete" THEN "forget" ELSE "refer"]
              /\ upsets' = upsets
           \/ Upset /\ Over(c) /\ UNCHANGED <<store, minted>>
    /\ UNCHANGED <<logins, servers, port, grants, used>>

\* The reference becomes the active one.
AddReference(c) ==
    /\ At(c, "refer")
    /\ LET others == [i \in 1..Len(store.refs) |-> [store.refs[i] EXCEPT !.active = FALSE]]
           kept == SelectSeq(others, LAMBDA r : r.id # clerks[c].id)
       IN  Update(c, [store EXCEPT !.refs = Append(kept, [id |-> clerks[c].id, active |-> TRUE])], "end")
    /\ UNCHANGED <<logins, servers, port, grants, minted, used>>

End(c) ==
    /\ At(c, "end") /\ Over(c)
    /\ UNCHANGED <<store, logins, servers, port, grants, minted, used, upsets>>

\* disconnect_shared_storage_profile looks for the reference ...
disconnect_shared_storage_profile(c) ==
    \E n \in 1..MaxProfiles : Referenced(n) /\ Start(c, "disconnect", NoLogin, n, "key")

Without(n) == [m \in Known \ {n} |-> store.creds[m]]

\* ... delete_profile_credentials removes the credentials ...
EraseCredentials(c) ==
    /\ At(c, "erase")
    /\ Update(c, [store EXCEPT !.creds = Without(clerks[c].id)], "dismiss")
    /\ UNCHANGED <<logins, servers, port, grants, minted, used>>

Dismissed(n) ==
    LET left == SelectSeq(store.refs, LAMBDA r : r.id # n)
        active == \E i \in 1..Len(store.refs) : store.refs[i].id = n /\ store.refs[i].active
    IN  [i \in 1..Len(left) |-> IF active /\ i = 1 THEN [left[i] EXCEPT !.active = TRUE] ELSE left[i]]

\* ... and the last update the reference, with what is left of the credentials.
DismissReference(c) ==
    /\ At(c, "dismiss")
    /\ Update(c, [store EXCEPT !.refs = Dismissed(clerks[c].id), !.creds = Without(clerks[c].id)], "end")
    /\ UNCHANGED <<logins, servers, port, grants, minted, used>>

\* set_active_shared_storage_profile looks for the profile, then sets the marks.
set_active_shared_storage_profile(c) ==
    \E n \in 1..MaxProfiles : Referenced(n) /\ Start(c, "activate", NoLogin, n, "activate")

Activate(c) ==
    /\ At(c, "activate")
    /\ Update(c, [store EXCEPT !.refs = [i \in 1..Len(store.refs) |->
                    [store.refs[i] EXCEPT !.active = store.refs[i].id = clerks[c].id]]], "end")
    /\ UNCHANGED <<logins, servers, port, grants, minted, used>>

(***************************************************************************)
(* Use of a profile.                                                       *)
(***************************************************************************)

\* resolve_profile: the active reference or the first, and its credentials.
Chosen == LET active == {i \in 1..Len(store.refs) : store.refs[i].active}
          IN  IF active = {} THEN 1 ELSE CHOOSE i \in active : \A j \in active : i <= j

resolve_profile(c) ==
    /\ Len(store.refs) > 0
    /\ LET n == store.refs[Chosen].id
       IN  /\ n \in Known
           /\ At(c, "idle") /\ May("use")
           /\ clerks' = [clerks EXCEPT ![c] = [Idle EXCEPT !.cmd = "use", !.id = n,
                                                  !.token = store.creds[n].token,
                                                  !.pc = IF May("expire") THEN "renew" ELSE "encrypt"]]
    /\ UNCHANGED <<store, logins, servers, port, grants, minted, used, upsets>>

\* refresh_oauth_if_needed: the provider takes each refresh token once.  A
\* token it has replaced is refused, and the old credentials are used.
Renew(c) ==
    /\ At(c, "renew")
    /\ LET n == clerks[c].id
       IN  IF clerks[c].token = grants[n] /\ grants[n] < MaxRenewals
           THEN /\ grants' = [grants EXCEPT ![n] = @ + 1]
                /\ clerks' = [clerks EXCEPT ![c].token = @ + 1, ![c].pc = "keep"]
           ELSE Goto(c, "encrypt") /\ grants' = grants
    /\ UNCHANGED <<store, logins, servers, port, minted, used, upsets>>

Renewed(n, token) == token

\* The rotated token is saved, if the profile is still there.
KeepToken(c) ==
    /\ At(c, "keep")
    /\ LET n == clerks[c].id
       IN  Update(c, IF n \in Known
                     THEN [store EXCEPT !.creds[n].token = Renewed(n, clerks[c].token)]
                     ELSE store, "encrypt")
    /\ UNCHANGED <<logins, servers, port, grants, minted, used>>

\* master_key_hex and retrieve_repository_key: the shared key, else the
\* profile's own; the agent encrypts with it what it uploads.
retrieve_repository_key(n) ==
    IF store.shared # NoKey THEN {store.shared}
    ELSE IF n \in Known THEN {store.creds[n].key} ELSE {}

Encrypt(c) ==
    /\ At(c, "encrypt")
    /\ used' = used \cup retrieve_repository_key(clerks[c].id)
    /\ Over(c)
    /\ UNCHANGED <<store, logins, servers, port, grants, minted, upsets>>

\* get_shared_storage_profiles: ensure_active_profile_reference
ensure_active_profile_reference(c) ==
    /\ At(c, "idle") /\ May("activate")
    /\ Len(store.refs) > 0 /\ \A i \in 1..Len(store.refs) : ~ store.refs[i].active
    /\ store' = [store EXCEPT !.refs[1].active = TRUE]
    /\ UNCHANGED <<logins, servers, port, grants, clerks, minted, used, upsets>>

\* The application is started again: sessions and servers are gone, the state is not.
AppRestarts ==
    /\ May("restart") /\ \E c \in Clerks : ~ At(c, "idle")
    /\ clerks' = [c \in Clerks |-> Idle]
    /\ logins' = [s \in Logins |-> IF InMap(s) THEN "gone" ELSE logins[s]]
    /\ servers' = [s \in Logins |-> IF servers[s] = "none" THEN "none" ELSE "done"]
    /\ port' = NoLogin
    /\ UNCHANGED <<store, grants, minted, used, upsets>>

Begins(c) ==
    \/ begin_oauth_authorization(c) \/ save_static_provider_credentials(c)
    \/ cancel_oauth_authorization(c) \/ complete_oauth_authorization(c)
    \/ disconnect_shared_storage_profile(c) \/ set_active_shared_storage_profile(c)
    \/ resolve_profile(c) \/ ensure_active_profile_reference(c)

Goes(c) ==
    \/ clear_pending_oauth_sessions(c) \/ ParseStatic(c) \/ Refused(c) \/ OpenSession(c)
    \/ clear_oauth_session_artifacts(c) \/ KeyRead(c) \/ KeyHoist(c) \/ SaveCredentials(c)
    \/ AddReference(c) \/ End(c) \/ EraseCredentials(c) \/ DismissReference(c) \/ Activate(c)
    \/ Renew(c) \/ KeepToken(c) \/ Encrypt(c)

Serves(s) == Bind(s) \/ Denied(s) \/ StoreToken(s) \/ Completed(s) \/ \E r \in Logins : Callback(s, r)

Step == (\E c \in Clerks : Begins(c) \/ Goes(c)) \/ (\E s \in Logins : Serves(s)) \/ AppRestarts

\* Once every session has been used and nothing is connected, nothing happens.
Next == Step /\ UNCHANGED world

Spec == Init /\ [][Next]_vars

(***************************************************************************)
(* Properties.                                                             *)
(***************************************************************************)

\* Everything that was ever encrypted can be decrypted with the key that the
\* next operation is given: whatever commands run at the same time, are
\* interrupted or fail to save, whichever providers are disconnected, there is
\* one repository key, and a key left by an earlier version is adopted.  With
\* several of those the promise cannot be kept.
KeyStable ==
    ~ May("legacies") =>
        /\ Cardinality(used) <= 1
        /\ \A n \in 1..MaxProfiles : Referenced(n) /\ n \in Known =>
              \A k \in used : k \in retrieve_repository_key(n)

\* The refresh token kept for a profile is the one the provider will take,
\* unless a command is just replacing it or a save failed: renewals by
\* concurrent commands do not overwrite each other's.
TokenNotLost ==
    ~ (May("disk") \/ May("restart")) => \A n \in Known :
        store.creds[n].token = grants[n] \/ \E c \in Clerks : clerks[c].id = n /\ At(c, "keep")
=============================================================================
