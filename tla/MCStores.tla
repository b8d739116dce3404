----------------------------- MODULE MCStores -------------------------------
(***************************************************************************)
(* What is recorded, for TLC: the state agent's operations                 *)
(* (StateOperations), and of the desktop the storage profiles and their    *)
(* key (StorageProfiles), the launch of an application (LaunchLibrary),    *)
(* the state file and the vault (AppStateStore), the packet sizes kept for *)
(* a path (PacketSize) and the feedback journal (FeedbackJournal).  Each   *)
(* behaviour is one of one component.                                      *)
(***************************************************************************)
EXTENDS StateOperations, TLC

CONSTANTS
    Parts,        \* the components to check
    StateWorlds,  \* of AppStateStore
    c1, c2, login1, login2, NoLogin

VARIABLES
    focus, \* the component of this behaviour
    scene, store, logins, servers, port, grants, clerks, minted, used, upsets,
    id, vm, record, cards, launches, trouble, disk, safe, relics, secure, mem,
    saver, loader, moonlight, keyFile, promised, staged, updates, setbacks,
    stored, sizer, wanted, link, inUse, week, consent, recording, journals,
    file, meter, hook, upload, received, reviews, rated, mishaps

Symmetry == Permutations(Ops) \cup Permutations(Handlers)

ProfileWorlds ==
    {{"oauth", "complete", "deny", "cancel"}, {"legacy", "use", "expire", "disconnect"},
     {"oauth", "complete", "restart", "use"}, {"legacies", "use", "disconnect", "activate"},
     {"oauth", "complete", "disk"}, {"oauth", "static", "disk"}}

Meta(s, d, e, l) == [steam |-> s, desktop |-> d, exe |-> e, launcher |-> l]
Metas ==
    {Meta(FALSE, "none", FALSE, "none"), Meta(FALSE, "none", TRUE, "none"),
     Meta(FALSE, "generic", TRUE, "steam"), Meta(FALSE, "own", FALSE, "other"),
     Meta(TRUE, "launcher", FALSE, "none")}
FewMetas == {Meta(FALSE, "own", TRUE, "none"), Meta(FALSE, "generic", TRUE, "steam")}
LibraryWorlds ==
    {{"cards", "call", "catalog"}, {"call"}, {"catalog"}, {"remove"}, {"slow"},
     {"two"}, {"unlisted"}}

VaultWorlds ==
    {{"crash", "denied", "locked", "legacy"}, {"crash", "windows", "denied", "legacy"},
     {"crash", "windows", "halfway"}, {"crash", "unverified"},
     {"crash", "full", "tunnelfile", "legacy"}, {"crash", "damage", "moonlight"},
     {"crash", "reload", "moonlight"}, {"crash", "moonlight", "keyless"}}
RaceWorlds == {{"moonlight"}}

File(at, mtu, fresh, onDisk) ==
    [active |-> TRUE, clean |-> TRUE, fresh |-> fresh, covers |-> TRUE,
     config |-> "c1", onDisk |-> onDisk, at |-> at, mtu |-> mtu]
Env(address, mtu, files) ==
    [address |-> address, mtu |-> mtu, files |-> files, route |-> "en0"]
Environments ==
    {Env("private", 1500, {File(1, 1420, TRUE, "c1")}),
     Env("private", 1200, {File(1, 1420, FALSE, "c1"), File(2, 1420, TRUE, "c2")}),
     Env("loopback", 1500, {}), Env("loopback", 1300, {}), Env("hostname", 0, {})}
\* The cache breaks ties by the order of the hashes: any fixed order.
HashOf(print) ==
    (IF print[1] = "private" THEN 0 ELSE IF print[1] = "loopback" THEN 2 ELSE 4)
    + (IF print[2] = "tunnel" THEN 1 ELSE 0)
Prefs(enabled, remoteMode, streamingMode) ==
    [enabled |-> enabled, remoteMode |-> remoteMode,
     streamingMode |-> streamingMode, remoteSize |-> 1392,
     networkSize |-> 1392, reconnects |-> TRUE]
Preferences ==
    {Prefs(TRUE, "auto", "auto"), Prefs(FALSE, "auto", "local")}

JournalWorlds ==
    {{"frames", "crash", "disk", "lost", "old"},
     {"frames", "review", "missing", "disk", "refused", "conflict"},
     {"consent", "crash", "disk", "setup"},
     {"frames", "suspended", "lost"}, {"again", "lost"}}

P == INSTANCE StorageProfiles WITH
    Clerks <- {c1, c2}, Logins <- {login1, login2}, MaxProfiles <- 2,
    MaxRenewals <- 2, MaxUpsets <- 1, NoKey <- 0, Worlds <- ProfileWorlds,
    world <- scene
L == INSTANCE LaunchLibrary WITH
    Jobs <- {1, 2}, Ids <- {"steam", "steam?", "number", "desktop"},
    FewIds <- {"number", "plain"}, MaxTrouble <- 1, Worlds <- LibraryWorlds,
    store <- record, world <- scene
V == INSTANCE AppStateStore WITH
    MaxUpdates <- 2, MaxUpsets <- 3, Worlds <- StateWorlds, upsets <- setbacks,
    world <- scene
K == INSTANCE PacketSize WITH
    CooldownWindows <- 1, StableWindows <- 2, ProbeSessions <- 2,
    CacheWeeks <- 2, MaxEntries <- 1, MaxWeek <- 1,
    Worlds <- {{"loopback"}, {"private"}, {"hostname", "disk"}}, world <- scene
J == INSTANCE FeedbackJournal WITH
    Sessions <- {1, 2}, MaxSessions <- 1, MaxRevision <- 5, MaxEpoch <- 3,
    MaxMishaps <- 2, Worlds <- JournalWorlds, running <- recording,
    wanted <- rated, trouble <- mishaps, world <- scene

profilesState == <<store, logins, servers, port, grants, clerks, minted, used,
    upsets>>
ProfilesOff ==
    /\ store = "-" /\ logins = "-" /\ servers = "-" /\ port = "-"
    /\ grants = "-" /\ clerks = "-" /\ minted = "-" /\ used = "-"
    /\ upsets = "-"
libraryState == <<id, vm, record, cards, launches, trouble>>
LibraryOff ==
    /\ id = "-" /\ vm = "-" /\ record = "-" /\ cards = "-" /\ launches = "-"
    /\ trouble = "-"
vaultState == <<disk, safe, relics, secure, mem, saver, loader, moonlight,
    keyFile, promised, staged, updates, setbacks>>
VaultOff ==
    /\ disk = "-" /\ safe = "-" /\ relics = "-" /\ secure = "-" /\ mem = "-"
    /\ saver = "-" /\ loader = "-" /\ moonlight = "-" /\ keyFile = "-"
    /\ promised = "-" /\ staged = "-" /\ updates = "-" /\ setbacks = "-"
packetState == <<stored, sizer, wanted, link, inUse, week>>
PacketOff ==
    /\ stored = "-" /\ sizer = "-" /\ wanted = "-" /\ link = "-"
    /\ inUse = "-" /\ week = "-"
journalState == <<consent, recording, journals, file, meter, hook, upload,
    received, reviews, rated, mishaps>>
JournalOff ==
    /\ consent = "-" /\ recording = "-" /\ journals = "-" /\ file = "-"
    /\ meter = "-" /\ hook = "-" /\ upload = "-" /\ received = "-"
    /\ reviews = "-" /\ rated = "-" /\ mishaps = "-"

\* One component is checked at a time; the others do not move.
PartInit ==
    /\ focus \in Parts
    /\ Init
    /\ focus # "operations" => world = {} /\ kind = [o \in Ops |-> "backup"]
    /\ IF focus = "profiles" THEN P!Init ELSE ProfilesOff
    /\ IF focus = "library" THEN L!Init ELSE LibraryOff
    /\ IF focus = "vault" THEN V!Init ELSE VaultOff
    /\ IF focus = "packet" THEN K!Init ELSE PacketOff
    /\ IF focus = "journal" THEN J!Init ELSE JournalOff
    /\ focus = "operations" => scene = {}

Only(p) ==
    /\ focus = p /\ UNCHANGED <<focus, scene>>
    /\ p # "operations" => UNCHANGED vars
    /\ p # "profiles" => UNCHANGED profilesState
    /\ p # "library" => UNCHANGED libraryState
    /\ p # "vault" => UNCHANGED vaultState
    /\ p # "packet" => UNCHANGED packetState
    /\ p # "journal" => UNCHANGED journalState

PartNext ==
    \/ Only("operations") /\ Next
    \/ Only("profiles") /\ P!Next
    \/ Only("library") /\ L!Next
    \/ Only("vault") /\ V!Next
    \/ Only("packet") /\ K!Next
    \/ Only("journal") /\ J!Next

partVars ==
    <<focus, vars, profilesState, libraryState, vaultState, packetState,
      journalState, scene>>

PartSpec == PartInit /\ [][PartNext]_partVars

-----------------------------------------------------------------------------
(* A launch starts its application at most once and only on a stream that  *)
(* is up, and a card offers only what can be kept (LaunchLibrary).         *)
StartedOnce == focus = "library" => L!StartedOnce /\ L!CardsHonest

(* A start restores what the last acknowledged save wrote, an identity     *)
(* that hosts are paired with is kept, and once the application runs       *)
(* state.json holds no secret (AppStateStore).  What was encrypted stays   *)
(* decryptable with the one repository key, and renewals of a grant do not *)
(* overwrite each other (StorageProfiles).                                 *)
SecretsKept ==
    [][/\ focus = "vault" => /\ V!RestartRestoresSaved /\ V!PairedIdentityKept
                            /\ V!PlaintextGone'
       /\ focus = "profiles" => P!KeyStable' /\ P!TokenNotLost']_partVars

(* A save of the state keeps what the Moonlight repository wrote           *)
(* (AppStateStore).                                                        *)
MoonlightKept == [][focus = "vault" => V!MoonlightKept]_partVars

(* A size is recorded as good only when the stable connection used it, and *)
(* an adaptive session never uses more than its path carries (PacketSize). *)
GoodMeansUsed == [][focus = "packet" => K!GoodMeansUsed /\ K!SizeWithinCap']_partVars

(* A revision the server has is never rewritten, and a rating reaches it   *)
(* only as the user left it (FeedbackJournal).                             *)
RevisionsStable == focus = "journal" => J!RevisionsStable /\ J!DraftsRespected

=============================================================================
